---- MODULE Spec2Model ----
(***************************************************************************)
(* Watched-address registry (ContractFilter), discovery parser            *)
(* (EventListener), external synchronisation (StartMongoDBSync), filtered  *)
(* query adapter (DopamintRPCClient) and CalculateFilterEfficiency of the  *)
(* Dopamint indexer, as a state machine.                                   *)
(*                                                                         *)
(* Abstractions.  A common.Address (20 bytes) is a small natural number.   *)
(* A common.Hash (32 bytes) is a record [hi, lo]: lo is the value of its   *)
(* low 20 bytes (an Address), hi tells whether its high 12 bytes are all   *)
(* zero (0) or not (1).  The map nftContracts only ever stores the value   *)
(* true, so it is modelled by its key set; len(nftContracts) is the        *)
(* cardinality of that set.                                                *)
(***************************************************************************)
EXTENDS Integers, Sequences, FiniteSets, TLC

\* ------------------------------------------------------------------ bounds
NumAddr == 4        \* number of distinct addresses
MaxBatch == 2       \* longest batch of logs handed to ProcessLogs
MaxList == 3        \* longest address list returned by the external source
MaxAttempts == 2    \* the count of sync attempts stops growing here
MaxBlock == 2       \* highest block number
MaxCount == 12      \* the counters of LogFilterStats run over 0 .. MaxCount
IntBits == 18       \* binary digits kept before the binary point
FracBits == 64      \* binary digits kept after the binary point

Address == 0 .. (NumAddr - 1)

\* ------------------------------------------------------------- common.Hash
Hash == [hi : {0, 1}, lo : Address]

\* crypto.Keccak256Hash of the event's textual signature: one fixed 32-byte
\* value whose high bytes are not zero.
NFTContractCreatedSignature == [hi |-> 1, lo |-> 0]

\* Some other 32-byte value in the first topic slot (another event).
OtherEventSignature == [hi |-> 1, lo |-> 1]

\* An indexed address parameter: 32 bytes, the address left-padded with zeros.
PadAddress(a) == [hi |-> 0, lo |-> a]

\* common.BytesToAddress(h.Bytes()): keeps the rightmost 20 bytes.
BytesToAddress(h) == h.lo

\* The elements of a slice.
Range(seq) == {seq[i] : i \in 1 .. Len(seq)}

\* ------------------------------------------------------------------- state
VARIABLES
    \* ContractFilter
    factoryAddress, paymentAddress, nftContracts, enabled, autoDiscovery,
    mongodbSyncEnabled,
    mongodbSyncInterval,    \* in seconds
    muWriter,           \* holder of mu.Lock(), or "none"
    muReaders,          \* set of holders of mu.RLock()
    \* EventListener and its caller (the fetch/discover driver)
    elFactoryAddress,
    elPc, elLogs, elI, discoveredCount,
    \* StartMongoDBSync (the sync goroutine), its context and its ticker
    syPc, syAddrs, syI, newCount,
    syErr,              \* the last syncFromMongoDB call returned an error
    ctxDone,            \* the cancellation signal has been raised
    tickerC,            \* a tick is waiting in the ticker's channel
    \* a caller of the read operations
    rdPc, rdOp, rdArg, rdRet,
    \* history: nftContracts as the last completed write left it
    committed,
    \* history: number of syncFromMongoDB calls made so far
    attempts,
    \* DopamintRPCClient (the filtered query adapter) and a caller of it
    addressFilter, filterEnabled,
    rpcPc,
    rpcArgs,            \* fromBlock and toBlock of the GetFilteredLogs call
    rpcQuery,           \* the FilterQuery handed to client.FilterLogs
    rpcErr,             \* the error client.FilterLogs came back with
    rpcRet,             \* what GetFilteredLogs returned
    \* history: client.FilterLogs calls made by the GetFilteredLogs call
    rpcCalls,
    \* history: argument of the last UpdateAddressFilter, and the list it
    \* took the place of
    updArg, updOld,
    \* a caller of CalculateFilterEfficiency
    effPc, effStats, effRet,
    \* the caller of NewContractFilter: the configuration file it names and
    \* what NewContractFilter returned
    ctorPc, ctorConfig, ctorRet,
    \* the caller of BackfillNFTContracts: its position and what the call
    \* returned, with the registry as it was at the call and the batch of the
    \* previous run
    bfPc, bfRet, bfStart, bfPrev,
    \* a caller of ParseNFTContractCreatedEvent: its position, the log it
    \* passes and what the call returned
    parsePc, parseLog, parseRet,
    \* a driver that hands the adapter a fresh snapshot before each fetch: its
    \* position and the snapshot it holds, with the dynamic set as it was at
    \* the driver's last snapshot and the addresses that snapshot was the
    \* first to hold
    drPc, drSnapshot, drSeen, drLate,
    \* what the external source delivered to the last syncFromMongoDB call,
    \* and the dynamic set as it was when that call started
    srcResult, syBefore,
    \* the cached list as GetFilteredLogs read it for its test
    rpcTested

filterVars == <<factoryAddress, paymentAddress, nftContracts, enabled,
                autoDiscovery, mongodbSyncEnabled, mongodbSyncInterval>>
muVars == <<muWriter, muReaders>>
elVars == <<elFactoryAddress, elPc, elLogs, elI, discoveredCount>>
syVars == <<syPc, syAddrs, syI, newCount, syErr, ctxDone, tickerC, attempts>>
rdVars == <<rdPc, rdOp, rdArg, rdRet>>
rpcVars == <<addressFilter, filterEnabled, rpcPc, rpcArgs, rpcQuery, rpcErr,
             rpcRet, rpcCalls, updArg, updOld>>
effVars == <<effPc, effStats, effRet>>
ctorVars == <<ctorPc, ctorConfig, ctorRet>>
bfVars == <<bfPc, bfRet, bfStart, bfPrev>>
parseVars == <<parsePc, parseLog, parseRet>>
drVars == <<drPc, drSnapshot, drSeen, drLate>>
srcVars == <<srcResult, syBefore>>
vars == <<filterVars, muVars, elVars, syVars, rdVars, committed, rpcVars,
          effVars, ctorVars, bfVars, parseVars, drVars, srcVars, rpcTested>>

\* ------------------------------------------------------------ construction
\* An address string of the configuration file: empty, or text that is not
\* hexadecimal, or the digits of address val written in lower or in upper
\* case.
HexString == [empty : BOOLEAN, hex : BOOLEAN, val : Address, upper : BOOLEAN]
EmptyString == [empty |-> TRUE, hex |-> TRUE, val |-> 0, upper |-> FALSE]
NotHex == [empty |-> FALSE, hex |-> FALSE, val |-> 0, upper |-> FALSE]
Hex(a, up) == [empty |-> FALSE, hex |-> TRUE, val |-> a, upper |-> up]

\* common.HexToAddress: the letter case of the digits is irrelevant; the
\* empty string and text without hexadecimal digits yield the zero address
\* (the decoding error is dropped).
HexToAddress(s) == IF s.empty \/ ~s.hex THEN 0 ELSE s.val

\* The preload loop of NewContractFilter run without its `addr != ""` test.
LoadInitial_all(list) == {HexToAddress(list[i]) : i \in 1 .. Len(list)}

\* The preload loop of NewContractFilter: every non-empty entry is inserted.
LoadInitial(list) ==
    {HexToAddress(list[i]) : i \in {j \in 1 .. Len(list) : list[j] /= EmptyString}}

\* The configurations the model starts from.
FactoryStrings == {Hex(1, FALSE)}
PaymentStrings == {Hex(1, TRUE), Hex(2, FALSE)}
PreloadLists == {<< >>, <<EmptyString, Hex(3, FALSE), Hex(3, TRUE)>>}
SyncSettings ==
    {[autoDiscovery |-> TRUE, mongodbSync |-> TRUE, intervalSeconds |-> 1],
     [autoDiscovery |-> FALSE, mongodbSync |-> FALSE, intervalSeconds |-> 1]}

\* Sync settings with mongodbSync enabled and every sign of intervalSeconds:
\* json.Unmarshal stores any integer of the file in the int field, and leaves
\* it 0 when the file has no intervalSeconds.
IntervalSettings ==
    {[autoDiscovery |-> TRUE, mongodbSync |-> TRUE, intervalSeconds |-> n] :
        n \in {-1, 0, 1}}

\* The configuration file at configPath.
ConfigFile(factory, payment, preload, en, auto, sync, interval) ==
    [readable |-> TRUE, parsable |-> TRUE,
     factory |-> factory, payment |-> payment, nftContracts |-> preload,
     enabled |-> en, autoDiscovery |-> auto, mongodbSync |-> sync,
     intervalSeconds |-> interval]

\* What NewContractFilter returns: a filter or nil, and an error.
CtorPending == [filter |-> FALSE, err |-> "pending"]
CtorOk == [filter |-> TRUE, err |-> "nil"]
CtorError(msg) == [filter |-> FALSE, err |-> msg]

NewContractFilter(factory, payment, preload, en, auto, sync, interval) ==
    /\ factoryAddress = HexToAddress(factory)
    /\ paymentAddress = HexToAddress(payment)
    /\ nftContracts = LoadInitial(preload)
    /\ enabled = en
    /\ autoDiscovery = auto
    /\ mongodbSyncEnabled = sync
    /\ mongodbSyncInterval = interval
    /\ muWriter = "none"
    /\ muReaders = {}

NewEventListener(factory) ==
    /\ elFactoryAddress = factory
    /\ elPc = "idle"
    /\ elLogs = << >>
    /\ elI = 1
    /\ discoveredCount = 0

\* The listener, the sync goroutine and the reader before they have run.
ActorsIdle ==
    /\ NewEventListener(factoryAddress)
    /\ syPc = "idle" /\ syAddrs = << >> /\ syI = 1 /\ newCount = 0
    /\ syErr = FALSE /\ attempts = 0
    /\ ctxDone = FALSE /\ tickerC = FALSE
    /\ rdPc = "idle" /\ rdOp = "none" /\ rdArg = 0 /\ rdRet = "none"
    /\ committed = nftContracts
    /\ bfPc = "idle" /\ bfRet = "none" /\ bfStart = {} /\ bfPrev = << >>
    /\ drPc = "idle" /\ drSnapshot = << >> /\ drSeen = nftContracts
    /\ drLate = {}
    /\ srcResult = [findErr |-> FALSE, docs |-> << >>, cursorErr |-> FALSE]
    /\ syBefore = nftContracts

\* The registry built by NewContractFilter from a well-formed configuration,
\* with the listener, the sync goroutine and the reader at start.
RegistryBuilt(settings) ==
    /\ \E f \in FactoryStrings, p \in PaymentStrings, l \in PreloadLists,
          en \in BOOLEAN, sy \in settings :
            /\ NewContractFilter(f, p, l, en, sy.autoDiscovery, sy.mongodbSync,
                                 sy.intervalSeconds)
            /\ ctorConfig = ConfigFile(f, p, l, en, sy.autoDiscovery,
                                       sy.mongodbSync, sy.intervalSeconds)
    /\ ctorPc = "returned"
    /\ ctorRet = CtorOk
    /\ ActorsIdle

RegistryInit == RegistryBuilt(SyncSettings)

\* The configuration files NewContractFilter is tried on: an unreadable one,
\* an unparsable one, and parsable ones whose factory or payment address may
\* be missing or may not be hexadecimal.
Unreadable ==
    [ConfigFile(EmptyString, EmptyString, << >>, FALSE, FALSE, FALSE, 0)
        EXCEPT !.readable = FALSE, !.parsable = FALSE]
Unparsable ==
    [ConfigFile(EmptyString, EmptyString, << >>, FALSE, FALSE, FALSE, 0)
        EXCEPT !.parsable = FALSE]
ConfigFiles ==
    {Unreadable, Unparsable} \cup
    {ConfigFile(f, p, l, en, sy.autoDiscovery, sy.mongodbSync,
                sy.intervalSeconds) :
        f \in {Hex(1, FALSE), EmptyString, NotHex},
        p \in {Hex(2, FALSE), EmptyString, NotHex},
        l \in PreloadLists, en \in BOOLEAN, sy \in SyncSettings}

\* Before NewContractFilter has run there is no filter: its fields are
\* given their zero values.
NoFilter ==
    /\ factoryAddress = 0 /\ paymentAddress = 0 /\ nftContracts = {}
    /\ enabled = FALSE /\ autoDiscovery = FALSE /\ mongodbSyncEnabled = FALSE
    /\ mongodbSyncInterval = 0
    /\ muWriter = "none" /\ muReaders = {}

\* NewContractFilter(configPath): the two error returns, or the filter
\* built from whatever the file holds.
NewContractFilter_Call ==
    /\ ctorPc = "idle"
    /\ ctorPc' = "returned"
    /\ IF ~ctorConfig.readable
       THEN /\ ctorRet' = CtorError("failed to read config file")
            /\ UNCHANGED <<filterVars, committed>>
       ELSE IF ~ctorConfig.parsable
       THEN /\ ctorRet' = CtorError("failed to parse config")
            /\ UNCHANGED <<filterVars, committed>>
       ELSE /\ ctorRet' = CtorOk
            /\ factoryAddress' = HexToAddress(ctorConfig.factory)
            /\ paymentAddress' = HexToAddress(ctorConfig.payment)
            /\ nftContracts' = LoadInitial(ctorConfig.nftContracts)
            /\ enabled' = ctorConfig.enabled
            /\ autoDiscovery' = ctorConfig.autoDiscovery
            /\ mongodbSyncEnabled' = ctorConfig.mongodbSync
            /\ mongodbSyncInterval' = ctorConfig.intervalSeconds
            /\ committed' = nftContracts'
    /\ UNCHANGED <<muVars, elVars, syVars, rdVars, ctorConfig>>
    /\ UNCHANGED <<rpcVars, effVars>>
    /\ UNCHANGED bfVars
    /\ UNCHANGED parseVars
    /\ UNCHANGED drVars
    /\ UNCHANGED srcVars
    /\ UNCHANGED rpcTested

\* ------------------------------------------------------------- sync.RWMutex
\* Lock() returns when no writer and no reader holds the mutex.
LockFree == muWriter = "none" /\ muReaders = {}

\* A write operation returning without its deferred Unlock.
Unlock_missing(writer) == writer

\* Unlock(), deferred by AddNFTContract and AddNFTContracts: the mutex has no
\* writer when the operation returns.
Unlock(writer) == "none"

\* RLock as it would be if it did not wait for the writer.
RLockFree_noWait == TRUE

\* RLock() returns when no writer holds the mutex.  (A waiting writer also
\* holds back new readers; that only delays them.)
RLockFree == muWriter = "none"

\* ----------------------------------------------------------- ContractFilter
\* The insertion written as `m[a] = !m[a]`: a present key is dropped.
Insert_flip(set, a) == IF a \in set THEN set \ {a} ELSE set \cup {a}

\* The insertion written as a fresh map holding the new key only.
Insert_reset(set, a) == {a}

\* `if !cf.nftContracts[a] { cf.nftContracts[a] = true }`
Insert(set, a) == IF a \notin set THEN set \cup {a} ELSE set

\* ------------------------------------------------------------ EventListener
\* The logs the driver hands to the listener.
LogEmitters == {1, 2}
Topic0s == {NFTContractCreatedSignature, OtherEventSignature}
Topic1s == {PadAddress(0), PadAddress(2)}
Topic2s == {PadAddress(NumAddr - 1)}
TopicLists ==
    {<< >>} \cup {<<t0>> : t0 \in Topic0s}
            \cup {<<NFTContractCreatedSignature, t1>> : t1 \in Topic1s}
            \cup {<<t0, t1, t2>> : t0 \in Topic0s, t1 \in Topic1s, t2 \in Topic2s}
Logs == [address : LogEmitters, topics : TopicLists]
Batches == UNION {[1 .. n -> Logs] : n \in 0 .. MaxBatch}

\* The logs delivered while the sync goroutine and a reader are running: two
\* factory logs carrying the discovery signature, one malformed, one complete.
LiveLogs ==
    {l \in Logs : /\ l.address = 1
                  /\ Len(l.topics) \in {1, 3}
                  /\ l.topics[1] = NFTContractCreatedSignature
                  /\ Len(l.topics) = 3 => l.topics[2].lo = 2}
LiveBatches == UNION {[1 .. n -> LiveLogs] : n \in 0 .. MaxBatch}
SingleLogBatches == {<<l>> : l \in LiveLogs}

\* A 32-byte topic whose 12 high bytes are not zero: not an address left-padded
\* with zeros (a large uint256, a hash).
DirtyTopic(a) == [hi |-> 1, lo |-> a]

\* Factory logs carrying the discovery signature, the second topic being a
\* padded address or not, with three topics or with the third one missing.
PaddingLogs ==
    {[address |-> 1,
      topics |-> <<NFTContractCreatedSignature, t1, PadAddress(NumAddr - 1)>>] :
        t1 \in {DirtyTopic(2), PadAddress(2), PadAddress(0)}}
    \cup {[address |-> 1,
           topics |-> <<NFTContractCreatedSignature, DirtyTopic(2)>>]}
PaddingBatches == UNION {[1 .. n -> PaddingLogs] : n \in 0 .. MaxBatch}

\* ProcessLog without its emitter test.
ProcessLogOutcome_anyEmitter(log) ==
    IF Len(log.topics) = 0 \/ log.topics[1] /= NFTContractCreatedSignature
        THEN "not_event"
    ELSE IF Len(log.topics) < 3 THEN "invalid"
    ELSE "add"

\* The path ProcessLog takes on a log: the three early returns, or the call
\* of AddNFTContract.
ProcessLogOutcome(log) ==
    IF log.address /= elFactoryAddress THEN "not_factory"
    ELSE IF Len(log.topics) = 0 \/ log.topics[1] /= NFTContractCreatedSignature
        THEN "not_event"
    ELSE IF Len(log.topics) < 3 THEN "invalid"
    ELSE "add"

\* The extraction reading the third topic slot (the creator).
ContractAddressOf_creator(log) == BytesToAddress(log.topics[3])

\* The address ProcessLog passes to AddNFTContract.
ContractAddressOf(log) == BytesToAddress(log.topics[2])

\* The test ProcessLogs makes after each ProcessLog call.
CountsAsDiscovered(log) ==
    Len(log.topics) > 0 /\ log.topics[1] = NFTContractCreatedSignature

CountAfter(log) ==
    IF CountsAsDiscovered(log) THEN discoveredCount + 1 ELSE discoveredCount

\* The loop of ProcessLogs giving up the batch of n logs after log i.
NextLog_abort(i, n) == n + 1

\* The loop of ProcessLogs going on to the log after log i of n.
NextLog(i, n) == i + 1

\* The driver calls ProcessLogs(logs).
ProcessLogs_Call(batches) ==
    /\ elPc = "idle"
    /\ \E b \in batches : elLogs' = b
    /\ elI' = 1
    /\ discoveredCount' = 0
    /\ elPc' = "loop"
    /\ UNCHANGED <<rpcVars, effVars>>
    /\ UNCHANGED <<filterVars, muVars, elFactoryAddress>>
    /\ UNCHANGED <<syVars, rdVars, committed>>
    /\ UNCHANGED ctorVars
    /\ UNCHANGED bfVars
    /\ UNCHANGED parseVars
    /\ UNCHANGED drVars
    /\ UNCHANGED srcVars
    /\ UNCHANGED rpcTested

\* One iteration on a log ProcessLog returns early from, with the counting
\* test that follows the call.
ProcessLog_Return ==
    /\ elPc = "loop"
    /\ elI <= Len(elLogs)
    /\ ProcessLogOutcome(elLogs[elI]) /= "add"
    /\ discoveredCount' = CountAfter(elLogs[elI])
    /\ elI' = NextLog(elI, Len(elLogs))
    /\ UNCHANGED <<rpcVars, effVars>>
    /\ UNCHANGED <<filterVars, muVars, elFactoryAddress, elPc, elLogs>>
    /\ UNCHANGED <<syVars, rdVars, committed>>
    /\ UNCHANGED ctorVars
    /\ UNCHANGED bfVars
    /\ UNCHANGED parseVars
    /\ UNCHANGED drVars
    /\ UNCHANGED srcVars
    /\ UNCHANGED rpcTested

\* ProcessLog reaches AddNFTContract, which takes the write lock.
AddNFTContract_Lock ==
    /\ elPc = "loop"
    /\ elI <= Len(elLogs)
    /\ ProcessLogOutcome(elLogs[elI]) = "add"
    /\ LockFree
    /\ muWriter' = "el"
    /\ elPc' = "add"
    /\ UNCHANGED <<rpcVars, effVars>>
    /\ UNCHANGED <<filterVars, muReaders, elFactoryAddress, elLogs, elI,
                   discoveredCount>>
    /\ UNCHANGED <<syVars, rdVars, committed>>
    /\ UNCHANGED ctorVars
    /\ UNCHANGED bfVars
    /\ UNCHANGED parseVars
    /\ UNCHANGED drVars
    /\ UNCHANGED srcVars
    /\ UNCHANGED rpcTested

\* The body of AddNFTContract and its deferred Unlock, then the counting
\* test of ProcessLogs.
AddNFTContract_Unlock ==
    /\ elPc = "add"
    /\ nftContracts' = Insert(nftContracts, ContractAddressOf(elLogs[elI]))
    /\ muWriter' = Unlock(muWriter)
    /\ discoveredCount' = CountAfter(elLogs[elI])
    /\ elI' = NextLog(elI, Len(elLogs))
    /\ elPc' = "loop"
    /\ committed' = nftContracts'
    /\ UNCHANGED <<rpcVars, effVars>>
    /\ UNCHANGED <<factoryAddress, paymentAddress, enabled, autoDiscovery,
                   mongodbSyncEnabled, mongodbSyncInterval, muReaders,
                   elFactoryAddress, elLogs>>
    /\ UNCHANGED <<syVars, rdVars>>
    /\ UNCHANGED ctorVars
    /\ UNCHANGED bfVars
    /\ UNCHANGED parseVars
    /\ UNCHANGED drVars
    /\ UNCHANGED srcVars
    /\ UNCHANGED rpcTested

\* ProcessLogs returns discoveredCount.
ProcessLogs_Return ==
    /\ elPc = "loop"
    /\ elI > Len(elLogs)
    /\ elPc' = "returned"
    /\ UNCHANGED <<rpcVars, effVars>>
    /\ UNCHANGED <<filterVars, muVars, elFactoryAddress, elLogs, elI,
                   discoveredCount>>
    /\ UNCHANGED <<syVars, rdVars, committed>>
    /\ UNCHANGED ctorVars
    /\ UNCHANGED bfVars
    /\ UNCHANGED parseVars
    /\ UNCHANGED drVars
    /\ UNCHANGED srcVars
    /\ UNCHANGED rpcTested

\* The driver has consumed the result.
ProcessLogs_Done ==
    /\ elPc = "returned"
    /\ elPc' = "idle"
    /\ elLogs' = << >>
    /\ elI' = 1
    /\ discoveredCount' = 0
    /\ UNCHANGED <<rpcVars, effVars>>
    /\ UNCHANGED <<filterVars, muVars, elFactoryAddress>>
    /\ UNCHANGED <<syVars, rdVars, committed>>
    /\ UNCHANGED ctorVars
    /\ UNCHANGED bfVars
    /\ UNCHANGED parseVars
    /\ UNCHANGED drVars
    /\ UNCHANGED srcVars
    /\ UNCHANGED rpcTested

\* The historical logs a backfill run is given: factory logs with the
\* discovery signature, complete (for address 2 or for the zero address) or
\* malformed.
BackfillLogs ==
    {[address |-> 1, topics |-> t] :
        t \in {<<NFTContractCreatedSignature, PadAddress(2), PadAddress(NumAddr - 1)>>,
               <<NFTContractCreatedSignature, PadAddress(0), PadAddress(NumAddr - 1)>>,
               <<NFTContractCreatedSignature>>}}
BackfillBatches == UNION {[1 .. n -> BackfillLogs] : n \in 0 .. MaxBatch}

\* What BackfillNFTContracts returns: a nil error; the count of ProcessLogs
\* is only printed.
BackfillResult(count) == [kind |-> "error", val |-> "nil"]

\* BackfillNFTContracts(ctx, logs) is called and calls ProcessLogs(logs).
BackfillNFTContracts_Call(batches) ==
    /\ bfPc = "idle"
    /\ elPc = "idle"
    /\ \E b \in batches : elLogs' = b
    /\ elI' = 1
    /\ discoveredCount' = 0
    /\ elPc' = "loop"
    /\ bfPc' = "call"
    /\ bfStart' = nftContracts
    /\ UNCHANGED <<bfRet, bfPrev>>
    /\ UNCHANGED <<rpcVars, effVars>>
    /\ UNCHANGED <<filterVars, muVars, elFactoryAddress>>
    /\ UNCHANGED <<syVars, rdVars, committed>>
    /\ UNCHANGED ctorVars
    /\ UNCHANGED parseVars
    /\ UNCHANGED drVars
    /\ UNCHANGED srcVars
    /\ UNCHANGED rpcTested

\* ProcessLogs has returned its count to BackfillNFTContracts, which prints
\* it and returns.
BackfillNFTContracts_Return ==
    /\ bfPc = "call"
    /\ elPc = "returned"
    /\ bfRet' = BackfillResult(discoveredCount)
    /\ bfPc' = "returned"
    /\ UNCHANGED <<bfStart, bfPrev>>
    /\ UNCHANGED <<rpcVars, effVars>>
    /\ UNCHANGED <<filterVars, muVars, elVars>>
    /\ UNCHANGED <<syVars, rdVars, committed>>
    /\ UNCHANGED ctorVars
    /\ UNCHANGED parseVars
    /\ UNCHANGED drVars
    /\ UNCHANGED srcVars
    /\ UNCHANGED rpcTested

\* The caller has consumed the result; it keeps the batch for a re-run.
BackfillNFTContracts_Done ==
    /\ bfPc = "returned"
    /\ bfPc' = "idle"
    /\ bfRet' = "none"
    /\ bfPrev' = elLogs
    /\ bfStart' = {}
    /\ elPc' = "idle"
    /\ elLogs' = << >>
    /\ elI' = 1
    /\ discoveredCount' = 0
    /\ UNCHANGED <<rpcVars, effVars>>
    /\ UNCHANGED <<filterVars, muVars, elFactoryAddress>>
    /\ UNCHANGED <<syVars, rdVars, committed>>
    /\ UNCHANGED ctorVars
    /\ UNCHANGED parseVars
    /\ UNCHANGED drVars
    /\ UNCHANGED srcVars
    /\ UNCHANGED rpcTested

\* What ParseNFTContractCreatedEvent returns: an event and a nil error, or
\* no event and an error.
ParsedEvent(log) ==
    [kind |-> "event",
     ContractAddress |-> BytesToAddress(log.topics[2]),
     Creator |-> BytesToAddress(log.topics[3])]
ParseError(msg) == [kind |-> "error", msg |-> msg]

\* ParseNFTContractCreatedEvent(log): the topic count is tested first, then
\* the signature; the emitter is not looked at.
ParseNFTContractCreatedEvent(log) ==
    IF Len(log.topics) < 3
        THEN ParseError("invalid NFTContractCreated event: not enough topics")
    ELSE IF log.topics[1] /= NFTContractCreatedSignature
        THEN ParseError("not an NFTContractCreated event")
    ELSE ParsedEvent(log)

\* No call of ParseNFTContractCreatedEvent is going on.
NoLog == [address |-> 0, topics |-> << >>]
ParseIdle == parsePc = "idle" /\ parseLog = NoLog /\ parseRet = "none"

ParseNFTContractCreatedEvent_Call ==
    /\ parsePc = "idle"
    /\ parseRet' = ParseNFTContractCreatedEvent(parseLog)
    /\ parsePc' = "returned"
    /\ UNCHANGED <<filterVars, muVars, elVars, syVars, rdVars, committed>>
    /\ UNCHANGED <<rpcVars, effVars, ctorVars, bfVars, parseLog>>
    /\ UNCHANGED drVars
    /\ UNCHANGED srcVars
    /\ UNCHANGED rpcTested

\* ---------------------------------------------------------- read operations
\* ShouldIndexLog without the payment test.
ShouldIndexLog_noPayment(address) ==
    IF ~enabled THEN TRUE
    ELSE address = factoryAddress \/ address \in nftContracts

\* ShouldIndexLog(address)
ShouldIndexLog(address) ==
    IF ~enabled THEN TRUE
    ELSE IF address = factoryAddress THEN TRUE
    ELSE IF address = paymentAddress THEN TRUE
    ELSE address \in nftContracts

\* The orders in which `for addr := range cf.nftContracts` can visit the keys.
RangeOrders(set) ==
    {o \in [1 .. Cardinality(set) -> set] :
        \A i, j \in 1 .. Cardinality(set) : i /= j => o[i] /= o[j]}

\* GetWatchedAddresses without the append of the payment address.
GetWatchedAddresses_noPayment(order) == <<factoryAddress>> \o order

\* GetWatchedAddresses without its loop over the map.
GetWatchedAddresses_fixedOnly(order) == <<factoryAddress, paymentAddress>>

\* GetWatchedAddresses, the map being visited in the given order.
GetWatchedAddresses(order) == <<factoryAddress, paymentAddress>> \o order

\* addr.Hex(): the checksummed text of an address, which mixes upper and
\* lower case letters.
AddressHex(a) == Hex(a, TRUE)

\* strings.ToLower
ToLower(s) == [s EXCEPT !.upper = FALSE]

\* One element of GetAddressFilter left as addr.Hex() gives it.
FilterString_hex(a) == AddressHex(a)

\* One element of GetAddressFilter: strings.ToLower(addr.Hex()).
FilterString(a) == ToLower(AddressHex(a))

\* GetAddressFilter, the map being visited in the given order.
GetAddressFilter(order) ==
    [i \in 1 .. Len(GetWatchedAddresses(order)) |->
        FilterString(GetWatchedAddresses(order)[i])]

\* Stats()
Stats ==
    [enabled |-> enabled,
     factory_address |-> factoryAddress,
     payment_address |-> paymentAddress,
     nft_contracts_count |-> Cardinality(nftContracts),
     total_watched |-> Cardinality(nftContracts) + 2,
     auto_discovery |-> autoDiscovery,
     mongodb_sync |-> mongodbSyncEnabled]

\* The addresses a caller asks ShouldIndexLog about.
QueryAddrs == {0, 1, 2}

\* ShouldIndexLog(a) is called: with filtering disabled it returns true
\* without touching the lock, otherwise it takes the read lock.
ShouldIndexLog_Call ==
    /\ rdPc = "idle"
    /\ \E a \in QueryAddrs : rdArg' = a
    /\ rdOp' = "ShouldIndexLog"
    /\ IF ~enabled
         THEN /\ rdPc' = "returned"
              /\ rdRet' = TRUE
              /\ UNCHANGED muReaders
         ELSE /\ RLockFree
              /\ muReaders' = muReaders \cup {"rd"}
              /\ rdPc' = "rlocked"
              /\ UNCHANGED rdRet
    /\ UNCHANGED <<rpcVars, effVars>>
    /\ UNCHANGED <<filterVars, muWriter, elVars, syVars, committed>>
    /\ UNCHANGED ctorVars
    /\ UNCHANGED bfVars
    /\ UNCHANGED parseVars
    /\ UNCHANGED drVars
    /\ UNCHANGED srcVars
    /\ UNCHANGED rpcTested

\* IsEnabled, GetWatchedAddresses, GetAddressFilter or Stats is called and
\* takes the read lock.
Read_Call ==
    /\ rdPc = "idle"
    /\ RLockFree
    /\ \E op \in {"IsEnabled", "GetWatchedAddresses", "GetAddressFilter",
                  "Stats"} :
            rdOp' = op
    /\ muReaders' = muReaders \cup {"rd"}
    /\ rdPc' = "rlocked"
    /\ UNCHANGED <<rpcVars, effVars>>
    /\ UNCHANGED <<filterVars, muWriter, elVars, syVars, committed, rdArg, rdRet>>
    /\ UNCHANGED ctorVars
    /\ UNCHANGED bfVars
    /\ UNCHANGED parseVars
    /\ UNCHANGED drVars
    /\ UNCHANGED srcVars
    /\ UNCHANGED rpcTested

\* The locked part of the read operation, its deferred RUnlock and return.
Read_Return ==
    /\ rdPc = "rlocked"
    /\ \/ rdOp = "ShouldIndexLog" /\ rdRet' = ShouldIndexLog(rdArg)
       \/ rdOp = "IsEnabled" /\ rdRet' = enabled
       \/ rdOp = "GetWatchedAddresses"
            /\ \E o \in RangeOrders(nftContracts) : rdRet' = GetWatchedAddresses(o)
       \/ rdOp = "GetAddressFilter"
            /\ \E o \in RangeOrders(nftContracts) : rdRet' = GetAddressFilter(o)
       \/ rdOp = "Stats" /\ rdRet' = Stats
    /\ muReaders' = muReaders \ {"rd"}
    /\ rdPc' = "returned"
    /\ UNCHANGED <<rpcVars, effVars>>
    /\ UNCHANGED <<filterVars, muWriter, elVars, syVars, committed, rdOp, rdArg>>
    /\ UNCHANGED ctorVars
    /\ UNCHANGED bfVars
    /\ UNCHANGED parseVars
    /\ UNCHANGED drVars
    /\ UNCHANGED srcVars
    /\ UNCHANGED rpcTested

\* The caller has consumed the result.
Read_Done ==
    /\ rdPc = "returned"
    /\ rdPc' = "idle"
    /\ rdOp' = "none"
    /\ rdArg' = 0
    /\ rdRet' = "none"
    /\ UNCHANGED <<rpcVars, effVars>>
    /\ UNCHANGED <<filterVars, muVars, elVars, syVars, committed>>
    /\ UNCHANGED ctorVars
    /\ UNCHANGED bfVars
    /\ UNCHANGED parseVars
    /\ UNCHANGED drVars
    /\ UNCHANGED srcVars
    /\ UNCHANGED rpcTested

\* --------------------------------------------------------- StartMongoDBSync
\* What GetNFTContractAddresses can return: an error, or a list of addresses.
\* The contract_address strings of the documents, in either letter case, and
\* the addresses GetNFTContractAddresses converts them to.
SourceStrings == {Hex(2, FALSE), Hex(3, FALSE), Hex(3, TRUE)}
SourceAddrs == {HexToAddress(s) : s \in SourceStrings}
SourceLists == UNION {[1 .. n -> SourceAddrs] : n \in 0 .. MaxList}

\* The lists the source returns while the listener is running as well: the
\* shorter ones.
LiveLists == {l \in SourceLists : Len(l) < MaxList}

configVars == <<factoryAddress, paymentAddress, enabled, autoDiscovery,
                mongodbSyncEnabled, mongodbSyncInterval>>

\* The count of sync attempts after one more attempt has started.
CountUp(n) == IF n < MaxAttempts THEN n + 1 ELSE n

\* StartMongoDBSync entering its periodic loop without the initial sync.
StartPc_waitFirst(syncEnabled) == IF syncEnabled THEN "wait" ELSE "returned"

\* StartMongoDBSync with its `if !cf.mongodbSyncEnabled` test dropped.
StartPc_noTest(syncEnabled) == "fetch"

\* Where StartMongoDBSync goes first: it returns when sync is disabled, and
\* otherwise creates the ticker and makes the initial syncFromMongoDB call.
StartPc(syncEnabled) == IF syncEnabled THEN "fetch" ELSE "returned"

\* The ticker exists from time.NewTicker until the deferred ticker.Stop().
TickerRunning == syPc \in {"fetch", "lock", "loop", "wait"}

\* time.NewTicker(d): panics ("non-positive interval for NewTicker") unless
\* d > 0; pc is where the caller goes on with the ticker.
NewTicker(d, pc) == IF d <= 0 THEN "panic" ELSE pc

\* `go StartMongoDBSync(ctx, client)`: the test of mongodbSyncEnabled, then
\* time.NewTicker(cf.mongodbSyncInterval), then the initial sync.  A panic
\* in the goroutine is recovered nowhere: the process ends.
StartMongoDBSync_Call ==
    /\ syPc = "idle"
    /\ syPc' = IF StartPc(mongodbSyncEnabled) = "returned"
               THEN "returned"
               ELSE NewTicker(mongodbSyncInterval,
                              StartPc(mongodbSyncEnabled))
    /\ attempts' = IF syPc' = "fetch" THEN CountUp(attempts) ELSE attempts
    /\ UNCHANGED <<rpcVars, effVars>>
    /\ UNCHANGED <<filterVars, muVars, elVars, rdVars, committed>>
    /\ UNCHANGED <<syAddrs, syI, newCount, syErr, ctxDone, tickerC>>
    /\ UNCHANGED ctorVars
    /\ UNCHANGED bfVars
    /\ UNCHANGED parseVars
    /\ UNCHANGED drVars
    /\ UNCHANGED srcVars
    /\ UNCHANGED rpcTested

\* StartMongoDBSync after an error of syncFromMongoDB, were it to return.
AfterError_return == "stopped"

\* StartMongoDBSync after an error of syncFromMongoDB: the error is printed
\* and the goroutine goes on to the select.
AfterError == "wait"

\* syncFromMongoDB: GetNFTContractAddresses fails; the error is returned to
\* StartMongoDBSync.
SyncFromMongoDB_Error ==
    /\ syPc = "fetch"
    /\ syErr' = TRUE
    /\ syPc' = AfterError
    /\ UNCHANGED <<rpcVars, effVars>>
    /\ UNCHANGED <<filterVars, muVars, elVars, rdVars, committed>>
    /\ UNCHANGED <<syAddrs, syI, newCount, ctxDone, tickerC, attempts>>
    /\ UNCHANGED ctorVars
    /\ UNCHANGED bfVars
    /\ UNCHANGED parseVars
    /\ UNCHANGED drVars
    /\ UNCHANGED srcVars
    /\ UNCHANGED rpcTested

\* syncFromMongoDB: GetNFTContractAddresses returns a list; a non-empty one
\* is handed to AddNFTContracts, an empty one makes syncFromMongoDB return
\* nil at once.
SyncFromMongoDB_Fetched(lists) ==
    /\ syPc = "fetch"
    /\ \E l \in lists :
        /\ syAddrs' = l
        /\ syPc' = IF Len(l) > 0 THEN "lock" ELSE "wait"
        /\ syErr' = IF Len(l) > 0 THEN syErr ELSE FALSE
    /\ UNCHANGED <<rpcVars, effVars>>
    /\ UNCHANGED <<filterVars, muVars, elVars, rdVars, committed>>
    /\ UNCHANGED <<syI, newCount, ctxDone, tickerC, attempts>>
    /\ UNCHANGED ctorVars
    /\ UNCHANGED bfVars
    /\ UNCHANGED parseVars
    /\ UNCHANGED drVars
    /\ UNCHANGED srcVars
    /\ UNCHANGED rpcTested

\* What the collection delivers to one GetNFTContractAddresses call: Find
\* fails, or the cursor delivers documents, each decodable or not, and then
\* ends, normally or with an error.
SourceDocs ==
    {[decodable |-> TRUE, contract_address |-> Hex(2, FALSE)],
     [decodable |-> TRUE, contract_address |-> Hex(3, TRUE)],
     [decodable |-> TRUE, contract_address |-> NotHex],
     [decodable |-> FALSE, contract_address |-> EmptyString]}
SourceResults ==
    {[findErr |-> TRUE, docs |-> << >>, cursorErr |-> FALSE]} \cup
    [findErr : {FALSE},
     docs : UNION {[1 .. n -> SourceDocs] : n \in 0 .. MaxList - 1},
     cursorErr : BOOLEAN]

\* common.IsHexAddress
IsHexAddress(s) == ~s.empty /\ s.hex

\* The loop of GetNFTContractAddresses: a document that cannot be decoded
\* is skipped, and so is one whose address is empty or not hexadecimal.
KeptDoc(doc) ==
    /\ doc.decodable
    /\ doc.contract_address /= EmptyString
    /\ IsHexAddress(doc.contract_address)
DecodedAddresses(docs) ==
    LET kept == SelectSeq(docs, KeptDoc)
    IN  [i \in 1 .. Len(kept) |-> HexToAddress(kept[i].contract_address)]

\* GetNFTContractAddresses: the list and the error it returns.
GetNFTContractAddresses(result) ==
    IF result.findErr
        THEN [addresses |-> << >>, err |-> "failed to query MongoDB"]
    ELSE IF result.cursorErr
        THEN [addresses |-> << >>, err |-> "cursor error"]
    ELSE [addresses |-> DecodedAddresses(result.docs), err |-> "nil"]

\* syncFromMongoDB on what the collection delivers: an error of
\* GetNFTContractAddresses is returned to StartMongoDBSync, a non-empty list
\* is handed to AddNFTContracts, an empty one makes syncFromMongoDB return
\* nil at once.
SyncFromMongoDB_Source(results) ==
    /\ syPc = "fetch"
    /\ \E r \in results :
        /\ srcResult' = r
        /\ IF GetNFTContractAddresses(r).err /= "nil"
           THEN /\ syErr' = TRUE
                /\ syPc' = AfterError
                /\ UNCHANGED syAddrs
           ELSE /\ syAddrs' = GetNFTContractAddresses(r).addresses
                /\ syPc' = IF Len(syAddrs') > 0 THEN "lock" ELSE "wait"
                /\ syErr' = FALSE
    /\ syBefore' = nftContracts
    /\ UNCHANGED <<rpcVars, effVars>>
    /\ UNCHANGED <<filterVars, muVars, elVars, rdVars, committed>>
    /\ UNCHANGED <<syI, newCount, ctxDone, tickerC, attempts>>
    /\ UNCHANGED <<ctorVars, bfVars, parseVars, drVars>>
    /\ UNCHANGED rpcTested

\* AddNFTContracts takes the write lock.
AddNFTContracts_Lock ==
    /\ syPc = "lock"
    /\ LockFree
    /\ muWriter' = "sync"
    /\ syPc' = "loop"
    /\ syI' = 1
    /\ newCount' = 0
    /\ UNCHANGED <<rpcVars, effVars>>
    /\ UNCHANGED <<filterVars, muReaders, elVars, rdVars, committed>>
    /\ UNCHANGED <<syAddrs, syErr, ctxDone, tickerC, attempts>>
    /\ UNCHANGED ctorVars
    /\ UNCHANGED bfVars
    /\ UNCHANGED parseVars
    /\ UNCHANGED drVars
    /\ UNCHANGED srcVars
    /\ UNCHANGED rpcTested

\* newCount counting every address of the list.
NewCountAfter_every(set, a, n) == n + 1

\* newCount after the loop of AddNFTContracts has handled address a.
NewCountAfter(set, a, n) == IF a \notin set THEN n + 1 ELSE n

\* One iteration of the loop of AddNFTContracts.
AddNFTContracts_Loop ==
    /\ syPc = "loop"
    /\ syI <= Len(syAddrs)
    /\ nftContracts' = Insert(nftContracts, syAddrs[syI])
    /\ newCount' = NewCountAfter(nftContracts, syAddrs[syI], newCount)
    /\ syI' = syI + 1
    /\ UNCHANGED <<rpcVars, effVars>>
    /\ UNCHANGED <<configVars, muVars, elVars, rdVars, committed>>
    /\ UNCHANGED <<syPc, syAddrs, syErr, ctxDone, tickerC, attempts>>
    /\ UNCHANGED ctorVars
    /\ UNCHANGED bfVars
    /\ UNCHANGED parseVars
    /\ UNCHANGED drVars
    /\ UNCHANGED srcVars
    /\ UNCHANGED rpcTested

\* AddNFTContracts returns (deferred Unlock); syncFromMongoDB returns nil.
AddNFTContracts_Unlock ==
    /\ syPc = "loop"
    /\ syI > Len(syAddrs)
    /\ muWriter' = Unlock(muWriter)
    /\ committed' = nftContracts
    /\ syPc' = "wait"
    /\ syErr' = FALSE
    /\ syAddrs' = << >>
    /\ syI' = 1
    /\ newCount' = 0
    /\ UNCHANGED <<rpcVars, effVars>>
    /\ UNCHANGED <<filterVars, muReaders, elVars, rdVars>>
    /\ UNCHANGED <<ctxDone, tickerC, attempts>>
    /\ UNCHANGED ctorVars
    /\ UNCHANGED bfVars
    /\ UNCHANGED parseVars
    /\ UNCHANGED drVars
    /\ UNCHANGED srcVars
    /\ UNCHANGED rpcTested

\* A ctx.Done() channel that never becomes readable.
DoneReady_never == FALSE

\* `<-ctx.Done()` can proceed: the context has been cancelled.
DoneReady == ctxDone

\* The select of the periodic loop takes `case <-ctx.Done()`.
Select_Done ==
    /\ syPc = "wait"
    /\ DoneReady
    /\ syPc' = "stopped"
    /\ UNCHANGED <<rpcVars, effVars>>
    /\ UNCHANGED <<filterVars, muVars, elVars, rdVars, committed>>
    /\ UNCHANGED <<syAddrs, syI, newCount, syErr, ctxDone, tickerC, attempts>>
    /\ UNCHANGED ctorVars
    /\ UNCHANGED bfVars
    /\ UNCHANGED parseVars
    /\ UNCHANGED drVars
    /\ UNCHANGED srcVars
    /\ UNCHANGED rpcTested

\* The tick handled wherever the goroutine is, as if each tick started a
\* syncFromMongoDB call of its own.
AtSelect_anywhere(pc) == pc \in {"fetch", "lock", "loop", "wait"}

\* The goroutine is at the select of the periodic loop: the previous
\* syncFromMongoDB call, made in the goroutine itself, has returned.
AtSelect(pc) == pc = "wait"

\* The select of the periodic loop takes `case <-ticker.C` and calls
\* syncFromMongoDB.
Select_Tick ==
    /\ AtSelect(syPc)
    /\ tickerC
    /\ tickerC' = FALSE
    /\ syPc' = "fetch"
    /\ attempts' = CountUp(attempts)
    /\ UNCHANGED <<rpcVars, effVars>>
    /\ UNCHANGED <<filterVars, muVars, elVars, rdVars, committed>>
    /\ UNCHANGED <<syAddrs, syI, newCount, syErr, ctxDone>>
    /\ UNCHANGED ctorVars
    /\ UNCHANGED bfVars
    /\ UNCHANGED parseVars
    /\ UNCHANGED drVars
    /\ UNCHANGED srcVars
    /\ UNCHANGED rpcTested

\* The owner of the context cancels it.
Cancel ==
    /\ ~ctxDone
    /\ ctxDone' = TRUE
    /\ UNCHANGED <<rpcVars, effVars>>
    /\ UNCHANGED <<filterVars, muVars, elVars, rdVars, committed>>
    /\ UNCHANGED <<syPc, syAddrs, syI, newCount, syErr, tickerC, attempts>>
    /\ UNCHANGED ctorVars
    /\ UNCHANGED bfVars
    /\ UNCHANGED parseVars
    /\ UNCHANGED drVars
    /\ UNCHANGED srcVars
    /\ UNCHANGED rpcTested

\* The running ticker puts a tick in its channel (capacity one).
Tick ==
    /\ TickerRunning
    /\ ~tickerC
    /\ tickerC' = TRUE
    /\ UNCHANGED <<rpcVars, effVars>>
    /\ UNCHANGED <<filterVars, muVars, elVars, rdVars, committed>>
    /\ UNCHANGED <<syPc, syAddrs, syI, newCount, syErr, ctxDone, attempts>>
    /\ UNCHANGED ctorVars
    /\ UNCHANGED bfVars
    /\ UNCHANGED parseVars
    /\ UNCHANGED drVars
    /\ UNCHANGED srcVars
    /\ UNCHANGED rpcTested

\* -------------------------------------------------------- DopamintRPCClient
Blocks == 0 .. MaxBlock

\* The address lists handed to NewDopamintRPCClient and UpdateAddressFilter.
FilterLists == {<< >>, <<1>>, <<1, 2>>, <<3>>}

\* The logs of the chain the node serves: two per block.
ChainLogs ==
    [i \in 1 .. 2 * (MaxBlock + 1) |->
        [address |-> i % NumAddr, block |-> (i - 1) \div 2]]

\* ethclient.Client.FilterLogs on a node that answers: the logs of the block
\* range, of the listed emitters only when the query lists any.
FilterLogs(q) ==
    LET Matches(l) ==
            /\ q.FromBlock <= l.block /\ l.block <= q.ToBlock
            /\ (q.Addresses = << >> \/ l.address \in Range(q.Addresses))
    IN SelectSeq(ChainLogs, Matches)

\* An error value: the chain of messages from the outermost wrapper to the
\* original failure, and the block ranges its text mentions.
NoError == [chain |-> << >>, blocks |-> {}]
Failures == {"network failure", "malformed response"}
ClientError(c) == [chain |-> <<c>>, blocks |-> {}]

\* fmt.Errorf(msg + ": %w", err)
Errorf(msg, err) == [chain |-> <<msg>> \o err.chain, blocks |-> err.blocks]

NoArgs == [fromBlock |-> 0, toBlock |-> 0]
NoQuery == [FromBlock |-> 0, ToBlock |-> 0, Addresses |-> << >>]
NoReturn == [logs |-> << >>, err |-> NoError]

NewDopamintRPCClient(addresses, fe) ==
    /\ addressFilter = addresses
    /\ filterEnabled = fe
    /\ rpcPc = "idle"
    /\ rpcArgs = NoArgs /\ rpcQuery = NoQuery
    /\ rpcErr = NoError /\ rpcRet = NoReturn
    /\ rpcCalls = 0
    /\ updArg = addresses /\ updOld = << >>
    /\ rpcTested = << >>

\* The query built with the cached list attached whatever filterEnabled is.
QueryAddresses_always(fe, list) == list

\* The Addresses field of the query GetFilteredLogs builds: the cached list
\* when filtering is on and the list is not empty, otherwise none.
QueryAddresses(fe, list) == IF ~fe \/ Len(list) = 0 THEN << >> ELSE list

\* GetFilteredLogs builds its query and calls client.FilterLogs.
GetFilteredLogs_Call ==
    /\ rpcPc = "idle"
    /\ \E from \in Blocks, to \in Blocks :
        /\ rpcArgs' = [fromBlock |-> from, toBlock |-> to]
        /\ rpcQuery' = [FromBlock |-> from, ToBlock |-> to,
                        Addresses |-> QueryAddresses(filterEnabled, addressFilter)]
    /\ rpcCalls' = 1
    /\ rpcPc' = "call"
    /\ UNCHANGED <<filterVars, muVars, elVars, syVars, rdVars, committed>>
    /\ UNCHANGED <<addressFilter, filterEnabled, rpcErr, rpcRet, updArg, updOld>>
    /\ UNCHANGED effVars
    /\ UNCHANGED ctorVars
    /\ UNCHANGED bfVars
    /\ UNCHANGED parseVars
    /\ UNCHANGED drVars
    /\ UNCHANGED srcVars
    /\ UNCHANGED rpcTested

\* GetFilteredLogs handing on only the first of the logs it was given.
ReturnLogs_first(logs) == SubSeq(logs, 1, 1)

\* `return d.client.FilterLogs(ctx, query)` and `return logs, nil`: the logs
\* of client.FilterLogs are returned as they are.
ReturnLogs(logs) == logs

\* client.FilterLogs returns logs; GetFilteredLogs returns them.
FilterLogs_Return ==
    /\ rpcPc = "call"
    /\ rpcErr' = NoError
    /\ rpcRet' = [logs |-> ReturnLogs(FilterLogs(rpcQuery)), err |-> NoError]
    /\ rpcPc' = "returned"
    /\ UNCHANGED <<filterVars, muVars, elVars, syVars, rdVars, committed>>
    /\ UNCHANGED <<addressFilter, filterEnabled, rpcArgs, rpcQuery, rpcCalls,
                   updArg, updOld>>
    /\ UNCHANGED effVars
    /\ UNCHANGED ctorVars
    /\ UNCHANGED bfVars
    /\ UNCHANGED parseVars
    /\ UNCHANGED drVars
    /\ UNCHANGED srcVars
    /\ UNCHANGED rpcTested

\* What GetFilteredLogs returns on an error of client.FilterLogs: the error
\* as it is on the unfiltered path, a wrapped one on the filtered path.
ErrorReturn(q, err) ==
    IF q.Addresses = << >>
    THEN [logs |-> << >>, err |-> err]
    ELSE [logs |-> << >>, err |-> Errorf("failed to fetch filtered logs", err)]

\* client.FilterLogs fails.
FilterLogs_Error ==
    /\ rpcPc = "call"
    /\ \E c \in Failures : rpcErr' = ClientError(c)
    /\ rpcRet' = ErrorReturn(rpcQuery, rpcErr')
    /\ rpcPc' = "returned"
    /\ UNCHANGED <<filterVars, muVars, elVars, syVars, rdVars, committed>>
    /\ UNCHANGED <<addressFilter, filterEnabled, rpcArgs, rpcQuery, rpcCalls,
                   updArg, updOld>>
    /\ UNCHANGED effVars
    /\ UNCHANGED ctorVars
    /\ UNCHANGED bfVars
    /\ UNCHANGED parseVars
    /\ UNCHANGED drVars
    /\ UNCHANGED srcVars
    /\ UNCHANGED rpcTested

\* The caller has taken the result of GetFilteredLogs.
GetFilteredLogs_Done ==
    /\ rpcPc = "returned"
    /\ rpcPc' = "idle"
    /\ rpcArgs' = NoArgs /\ rpcQuery' = NoQuery
    /\ rpcErr' = NoError /\ rpcRet' = NoReturn
    /\ rpcCalls' = 0
    /\ UNCHANGED <<filterVars, muVars, elVars, syVars, rdVars, committed>>
    /\ UNCHANGED <<addressFilter, filterEnabled, updArg, updOld>>
    /\ UNCHANGED effVars
    /\ UNCHANGED ctorVars
    /\ UNCHANGED bfVars
    /\ UNCHANGED parseVars
    /\ UNCHANGED drVars
    /\ UNCHANGED srcVars
    /\ UNCHANGED rpcTested

\* GetFilteredLogs run concurrently with UpdateAddressFilter.  The adapter
\* has no lock: GetFilteredLogs reads d.addressFilter for its test and reads
\* it again to build the query, and an UpdateAddressFilter call can write
\* the field in between.

\* What the second read of d.addressFilter can give when the field held
\* `tested` at the test and holds `current` now: without a write in between
\* they are the same list; a racing write is seen or not.
SecondRead(tested, current) == {tested, current}

\* `if !d.filterEnabled || len(d.addressFilter) == 0`
GetFilteredLogs_Test ==
    /\ rpcPc = "idle"
    /\ \E from \in Blocks, to \in Blocks :
        rpcArgs' = [fromBlock |-> from, toBlock |-> to]
    /\ rpcTested' = addressFilter
    /\ rpcPc' = "test"
    /\ UNCHANGED <<filterVars, muVars, elVars, syVars, rdVars, committed>>
    /\ UNCHANGED <<addressFilter, filterEnabled, rpcQuery, rpcErr, rpcRet,
                   rpcCalls, updArg, updOld>>
    /\ UNCHANGED <<effVars, ctorVars, bfVars, parseVars, drVars, srcVars>>

\* The query is built on the path the test chose, the filtered path reading
\* d.addressFilter again, and client.FilterLogs is called.
GetFilteredLogs_Build ==
    /\ rpcPc = "test"
    /\ \E l \in SecondRead(rpcTested, addressFilter) :
        rpcQuery' = [FromBlock |-> rpcArgs.fromBlock, ToBlock |-> rpcArgs.toBlock,
                     Addresses |-> IF QueryAddresses(filterEnabled, rpcTested) = << >>
                                   THEN << >> ELSE l]
    /\ rpcCalls' = 1
    /\ rpcPc' = "call"
    /\ UNCHANGED <<filterVars, muVars, elVars, syVars, rdVars, committed>>
    /\ UNCHANGED <<addressFilter, filterEnabled, rpcArgs, rpcErr, rpcRet,
                   updArg, updOld, rpcTested>>
    /\ UNCHANGED <<effVars, ctorVars, bfVars, parseVars, drVars, srcVars>>

\* The assignment of UpdateAddressFilter written as an append.
NewFilter_merge(old, addresses) == old \o addresses

\* The cached list after UpdateAddressFilter(addresses).
NewFilter(old, addresses) == addresses

UpdateAddressFilter_Call ==
    /\ \E l \in FilterLists :
        /\ addressFilter' = NewFilter(addressFilter, l)
        /\ updArg' = l
    /\ updOld' = addressFilter
    /\ UNCHANGED <<filterVars, muVars, elVars, syVars, rdVars, committed>>
    /\ UNCHANGED <<filterEnabled, rpcPc, rpcArgs, rpcQuery, rpcErr, rpcRet,
                   rpcCalls>>
    /\ UNCHANGED effVars
    /\ UNCHANGED ctorVars
    /\ UNCHANGED bfVars
    /\ UNCHANGED parseVars
    /\ UNCHANGED drVars
    /\ UNCHANGED srcVars
    /\ UNCHANGED rpcTested

\* ------------------------------------------------------------------ driver
\* A driver of the fetch cycle: GetWatchedAddresses, UpdateAddressFilter with
\* the result, GetFilteredLogs, again.

\* The driver calls GetWatchedAddresses, which takes the read lock.
Driver_Snapshot_Call ==
    /\ drPc = "idle"
    /\ RLockFree
    /\ muReaders' = muReaders \cup {"dr"}
    /\ drPc' = "rlocked"
    /\ UNCHANGED <<drSnapshot, drSeen, drLate>>
    /\ UNCHANGED <<filterVars, muWriter, elVars, syVars, rdVars, committed>>
    /\ UNCHANGED <<rpcVars, effVars, ctorVars, bfVars, parseVars>>
    /\ UNCHANGED srcVars
    /\ UNCHANGED rpcTested

\* GetWatchedAddresses builds the list, releases the lock and returns.
Driver_Snapshot_Return ==
    /\ drPc = "rlocked"
    /\ \E o \in RangeOrders(nftContracts) : drSnapshot' = GetWatchedAddresses(o)
    /\ drLate' = nftContracts \ drSeen
    /\ drSeen' = nftContracts
    /\ muReaders' = muReaders \ {"dr"}
    /\ drPc' = "update"
    /\ UNCHANGED <<filterVars, muWriter, elVars, syVars, rdVars, committed>>
    /\ UNCHANGED <<rpcVars, effVars, ctorVars, bfVars, parseVars>>
    /\ UNCHANGED srcVars
    /\ UNCHANGED rpcTested

\* The driver calls UpdateAddressFilter(snapshot).
Driver_UpdateAddressFilter ==
    /\ drPc = "update"
    /\ addressFilter' = NewFilter(addressFilter, drSnapshot)
    /\ updArg' = drSnapshot
    /\ updOld' = addressFilter
    /\ drPc' = "fetch"
    /\ UNCHANGED <<drSnapshot, drSeen, drLate>>
    /\ UNCHANGED <<filterVars, muVars, elVars, syVars, rdVars, committed>>
    /\ UNCHANGED <<filterEnabled, rpcPc, rpcArgs, rpcQuery, rpcErr, rpcRet,
                   rpcCalls>>
    /\ UNCHANGED <<effVars, ctorVars, bfVars, parseVars>>
    /\ UNCHANGED srcVars
    /\ UNCHANGED rpcTested

\* The driver calls GetFilteredLogs on the whole range of blocks.
Driver_GetFilteredLogs ==
    /\ drPc = "fetch"
    /\ rpcPc = "idle"
    /\ rpcArgs' = [fromBlock |-> 0, toBlock |-> MaxBlock]
    /\ rpcQuery' = [FromBlock |-> 0, ToBlock |-> MaxBlock,
                    Addresses |-> QueryAddresses(filterEnabled, addressFilter)]
    /\ rpcCalls' = 1
    /\ rpcPc' = "call"
    /\ drPc' = "fetched"
    /\ UNCHANGED <<drSnapshot, drSeen, drLate>>
    /\ UNCHANGED <<filterVars, muVars, elVars, syVars, rdVars, committed>>
    /\ UNCHANGED <<addressFilter, filterEnabled, rpcErr, rpcRet, updArg, updOld>>
    /\ UNCHANGED <<effVars, ctorVars, bfVars, parseVars>>
    /\ UNCHANGED srcVars
    /\ UNCHANGED rpcTested

\* The driver has taken the result of GetFilteredLogs; the cycle starts again.
Driver_Done ==
    /\ drPc = "fetched"
    /\ rpcPc = "returned"
    /\ rpcPc' = "idle"
    /\ rpcArgs' = NoArgs /\ rpcQuery' = NoQuery
    /\ rpcErr' = NoError /\ rpcRet' = NoReturn
    /\ rpcCalls' = 0
    /\ drPc' = "idle"
    /\ drSnapshot' = << >>
    /\ UNCHANGED <<drSeen, drLate>>
    /\ UNCHANGED <<filterVars, muVars, elVars, syVars, rdVars, committed>>
    /\ UNCHANGED <<addressFilter, filterEnabled, updArg, updOld>>
    /\ UNCHANGED <<effVars, ctorVars, bfVars, parseVars>>
    /\ UNCHANGED srcVars
    /\ UNCHANGED rpcTested

\* -------------------------------------------------- CalculateFilterEfficiency
\* float64 has a significand of 53 binary digits.
MantBits == 53

\* A float64 is a sign and a magnitude; the magnitude is written in binary,
\* most significant digit first, with IntBits digits before the binary point
\* and FracBits after it.  All the values met here fit without loss.
FxLen == IntBits + FracBits
FxZero == [i \in 1 .. FxLen |-> 0] \o << >>

\* The magnitude of a natural number.
FxOfInt(n) ==
    [i \in 1 .. FxLen |->
        IF i <= IntBits THEN (n \div 2^(IntBits - i)) % 2 ELSE 0] \o << >>

\* 2^k modulo t, by repeated squaring.
RECURSIVE PowMod2(_, _)
PowMod2(k, t) ==
    IF k = 0 THEN 1 % t
    ELSE LET h == PowMod2(k \div 2, t)
         IN (IF k % 2 = 1 THEN 2 * h * h ELSE h * h) % t

\* What is left of rem / t after k digits of long division.
RemAfter(rem, t, k) == (rem * PowMod2(k, t)) % t

\* The quotient r / t of two naturals, cut after FracBits digits by long
\* division; the last digit is also set when the division has not come out
\* even.
FxDiv(r, t) ==
    [i \in 1 .. FxLen |->
        IF i <= IntBits THEN ((r \div t) \div 2^(IntBits - i)) % 2
        ELSE LET k == i - IntBits
                 digit == (2 * RemAfter(r % t, t, k - 1)) \div t
             IN IF k = FracBits /\ RemAfter(r % t, t, k) /= 0 THEN 1
                ELSE digit] \o << >>

\* a + b: digit i receives a carry when, to its right, the nearest digit
\* where a and b agree is a 1.
FxAdd(a, b) ==
    LET carry(i) == \E j \in (i + 1) .. FxLen :
                        /\ a[j] = 1 /\ b[j] = 1
                        /\ \A k \in (i + 1) .. (j - 1) : a[k] /= b[k]
    IN [i \in 1 .. FxLen |->
           (a[i] + b[i] + (IF carry(i) THEN 1 ELSE 0)) % 2] \o << >>

\* a - b, for a >= b: digit i lends when, to its right, the nearest digit
\* where a and b differ has a 0 in a.
FxSub(a, b) ==
    LET borrow(i) == \E j \in (i + 1) .. FxLen :
                         /\ a[j] < b[j]
                         /\ \A k \in (i + 1) .. (j - 1) : a[k] = b[k]
    IN [i \in 1 .. FxLen |->
           (2 + a[i] - b[i] - (IF borrow(i) THEN 1 ELSE 0)) % 2] \o << >>

FxLess(a, b) ==
    \E i \in 1 .. FxLen : a[i] < b[i] /\ \A j \in 1 .. (i - 1) : a[j] = b[j]

\* a * 2^k
FxShl(a, k) == [i \in 1 .. FxLen |-> IF i + k <= FxLen THEN a[i + k] ELSE 0] \o << >>

\* Rounding to MantBits significant digits, to nearest, ties to even.
FxRound(a) ==
    IF a = FxZero THEN a
    ELSE LET lead == CHOOSE i \in 1 .. FxLen :
                        a[i] = 1 /\ \A j \in 1 .. (i - 1) : a[j] = 0
             last == lead + MantBits - 1
         IN IF last >= FxLen THEN a
            ELSE LET kept == [i \in 1 .. FxLen |->
                                 IF i <= last THEN a[i] ELSE 0] \o << >>
                     ulp == [i \in 1 .. FxLen |->
                                 IF i = last THEN 1 ELSE 0] \o << >>
                     rest == \E j \in (last + 2) .. FxLen : a[j] = 1
                     up == a[last + 1] = 1 /\ (rest \/ a[last] = 1)
                 IN IF up THEN FxAdd(kept, ulp) ELSE kept

F64(n) == [neg |-> FALSE, mag |-> FxOfInt(n)]

\* float64(r) / float64(t) for naturals r and t, t not zero.
F64Quo(r, t) == [neg |-> FALSE, mag |-> FxRound(FxDiv(r, t))]

\* x - y for x and y not negative.
F64Sub(x, y) ==
    IF FxLess(x.mag, y.mag)
    THEN [neg |-> TRUE, mag |-> FxRound(FxSub(y.mag, x.mag))]
    ELSE [neg |-> FALSE, mag |-> FxRound(FxSub(x.mag, y.mag))]

\* x * 100: 100 = 64 + 32 + 4.
F64Times100(x) ==
    [neg |-> x.neg,
     mag |-> FxRound(FxAdd(FxShl(x.mag, 6),
                           FxAdd(FxShl(x.mag, 5), FxShl(x.mag, 2))))]

\* The counters handed to CalculateFilterEfficiency.
Counts == (0 .. MaxCount) \cup {100, 1000}
LogFilterStats == [TotalLogsReceived : Counts, LogsAfterFilter : Counts]

\* The ratio taken for the efficiency: retained / total * 100.
CalculateFilterEfficiency_ratio(stats) ==
    IF stats.TotalLogsReceived = 0 THEN F64(0)
    ELSE F64Times100(F64Quo(stats.LogsAfterFilter, stats.TotalLogsReceived))

CalculateFilterEfficiency(stats) ==
    IF stats.TotalLogsReceived = 0 THEN F64(0)
    ELSE F64Times100(F64Sub(F64(1),
             F64Quo(stats.LogsAfterFilter, stats.TotalLogsReceived)))

\* No call of CalculateFilterEfficiency is going on.
EffIdle ==
    /\ effPc = "idle"
    /\ effStats = [TotalLogsReceived |-> 0, LogsAfterFilter |-> 0]
    /\ effRet = F64(0)

CalculateFilterEfficiency_Call ==
    /\ effPc = "idle"
    /\ effRet' = CalculateFilterEfficiency(effStats)
    /\ effPc' = "returned"
    /\ UNCHANGED <<filterVars, muVars, elVars, syVars, rdVars, committed>>
    /\ UNCHANGED <<rpcVars, effStats>>
    /\ UNCHANGED ctorVars
    /\ UNCHANGED bfVars
    /\ UNCHANGED parseVars
    /\ UNCHANGED drVars
    /\ UNCHANGED srcVars
    /\ UNCHANGED rpcTested

\* ----------------------------------------------------------- specification
\* The state after construction, with an adapter that does not filter.
Init ==
    RegistryInit /\ NewDopamintRPCClient(<< >>, FALSE) /\ EffIdle /\ ParseIdle

ListenerNext(batches) ==
    \/ ProcessLogs_Call(batches)
    \/ ProcessLog_Return
    \/ AddNFTContract_Lock
    \/ AddNFTContract_Unlock
    \/ ProcessLogs_Return
    \/ ProcessLogs_Done

InitialSyncNext ==
    \/ StartMongoDBSync_Call
    \/ SyncFromMongoDB_Error
    \/ SyncFromMongoDB_Fetched(SourceLists)
    \/ AddNFTContracts_Lock
    \/ AddNFTContracts_Loop
    \/ AddNFTContracts_Unlock

SyncNext ==
    \/ InitialSyncNext
    \/ Select_Done
    \/ Select_Tick

ContextNext ==
    \/ Cancel
    \/ Tick

ReaderNext ==
    \/ ShouldIndexLog_Call
    \/ Read_Call
    \/ Read_Return
    \/ Read_Done

LiveSyncNext ==
    \/ StartMongoDBSync_Call
    \/ SyncFromMongoDB_Error
    \/ SyncFromMongoDB_Fetched(LiveLists)
    \/ AddNFTContracts_Lock
    \/ AddNFTContracts_Loop
    \/ AddNFTContracts_Unlock
    \/ Select_Done
    \/ Select_Tick

\* The fetch/discover driver and the sync goroutine, running concurrently.
Next == ListenerNext(LiveBatches) \/ LiveSyncNext \/ ContextNext

Spec == Init /\ [][Next]_vars

\* The listener alone, on every batch of Batches.
ListenerSpecNext == ListenerNext(Batches)

ListenerSpec == Init /\ [][ListenerSpecNext]_vars

\* The listener alone on factory logs whose second topic may not be a padded
\* address.
PaddingSpecNext == ListenerNext(PaddingBatches)

PaddingSpec == Init /\ [][PaddingSpecNext]_vars

\* Backfill runs, one after the other, on historical batches.
BackfillNext ==
    \/ BackfillNFTContracts_Call(BackfillBatches)
    \/ ProcessLog_Return
    \/ AddNFTContract_Lock
    \/ AddNFTContract_Unlock
    \/ ProcessLogs_Return
    \/ BackfillNFTContracts_Return
    \/ BackfillNFTContracts_Done

BackfillSpec == Init /\ [][BackfillNext]_vars

\* One ProcessLogs call of the listener and the initial sync of the sync
\* goroutine, which fetches the list CommuteList, running concurrently.
CommuteList == <<2, 3>>
CommuteNext ==
    \/ ProcessLogs_Call(BackfillBatches)
    \/ ProcessLog_Return
    \/ AddNFTContract_Lock
    \/ AddNFTContract_Unlock
    \/ ProcessLogs_Return
    \/ StartMongoDBSync_Call
    \/ SyncFromMongoDB_Fetched({CommuteList})
    \/ AddNFTContracts_Lock
    \/ AddNFTContracts_Loop
    \/ AddNFTContracts_Unlock

CommuteSpec == Init /\ [][CommuteNext]_vars

\* A reader running concurrently with both writers: the listener on one log
\* at a time, the sync goroutine up to its first wait.
ReaderSpecNext ==
    ReaderNext \/ ListenerNext(SingleLogBatches) \/ InitialSyncNext

ReaderSpec == Init /\ [][ReaderSpecNext]_vars

\* The sync goroutine alone, with its context and its ticker.
SyncSpecNext == SyncNext \/ ContextNext

SyncSpec == Init /\ [][SyncSpecNext]_vars

\* The sync goroutine started on registries whose configuration enables
\* sync with a negative, a missing (0) or a positive intervalSeconds.
IntervalInit ==
    /\ RegistryBuilt(IntervalSettings)
    /\ NewDopamintRPCClient(<< >>, FALSE)
    /\ EffIdle
    /\ ParseIdle

IntervalSpec == IntervalInit /\ [][SyncSpecNext]_vars

\* A caller of the adapter: fetches, and updates of the cached list.
AdapterInit ==
    /\ RegistryInit
    /\ \E l \in FilterLists, fe \in BOOLEAN : NewDopamintRPCClient(l, fe)
    /\ EffIdle
    /\ ParseIdle

AdapterNext ==
    \/ GetFilteredLogs_Call
    \/ FilterLogs_Return
    \/ FilterLogs_Error
    \/ GetFilteredLogs_Done
    \/ UpdateAddressFilter_Call

AdapterSpec == AdapterInit /\ [][AdapterNext]_vars

\* CalculateFilterEfficiency applied to every pair of counters.
EffInit ==
    /\ RegistryInit
    /\ NewDopamintRPCClient(<< >>, FALSE)
    /\ effPc = "idle"
    /\ effStats \in LogFilterStats
    /\ effRet = F64(0)
    /\ ParseIdle

EffNext == CalculateFilterEfficiency_Call

EffSpec == EffInit /\ [][EffNext]_vars

\* NewContractFilter tried on every configuration file of ConfigFiles.
ConfigInit ==
    /\ ctorPc = "idle"
    /\ ctorConfig \in ConfigFiles
    /\ ctorRet = CtorPending
    /\ NoFilter
    /\ ActorsIdle
    /\ NewDopamintRPCClient(<< >>, FALSE)
    /\ EffIdle
    /\ ParseIdle

\* The driver's fetch cycle, with the listener and the initial sync running
\* concurrently and an adapter that filters or not.
DriverLists == {<<3>>, <<2, 3>>}
DriverInit ==
    /\ RegistryInit
    /\ \E fe \in BOOLEAN : NewDopamintRPCClient(<< >>, fe)
    /\ EffIdle
    /\ ParseIdle

DriverNext ==
    \/ Driver_Snapshot_Call
    \/ Driver_Snapshot_Return
    \/ Driver_UpdateAddressFilter
    \/ Driver_GetFilteredLogs
    \/ FilterLogs_Return
    \/ FilterLogs_Error
    \/ Driver_Done
    \/ ListenerNext(SingleLogBatches)
    \/ StartMongoDBSync_Call
    \/ SyncFromMongoDB_Fetched(DriverLists)
    \/ AddNFTContracts_Lock
    \/ AddNFTContracts_Loop
    \/ AddNFTContracts_Unlock

DriverSpec == DriverInit /\ [][DriverNext]_vars

\* The sync goroutine alone, on every result of the collection.
SourceNext ==
    \/ StartMongoDBSync_Call
    \/ SyncFromMongoDB_Source(SourceResults)
    \/ AddNFTContracts_Lock
    \/ AddNFTContracts_Loop
    \/ AddNFTContracts_Unlock
    \/ Select_Tick
    \/ Tick

SourceSpec == Init /\ [][SourceNext]_vars

\* A fetch and updates of the cached list, made by different goroutines.
RaceNext ==
    \/ GetFilteredLogs_Test
    \/ GetFilteredLogs_Build
    \/ FilterLogs_Return
    \/ GetFilteredLogs_Done
    \/ UpdateAddressFilter_Call

RaceSpec == AdapterInit /\ [][RaceNext]_vars

\* The three users of the registry's mutex under a fair scheduler: a started
\* operation takes its next step, and a Lock() call is granted when the
\* mutex becomes free again and again (a blocked Lock() holds back new
\* readers, and blocked writers are served in turn).  Nothing obliges a
\* caller to start an operation.
LockNext ==
    \/ ReaderNext
    \/ ListenerNext(SingleLogBatches)
    \/ StartMongoDBSync_Call
    \/ SyncFromMongoDB_Error
    \/ SyncFromMongoDB_Fetched(DriverLists)
    \/ AddNFTContracts_Lock
    \/ AddNFTContracts_Loop
    \/ AddNFTContracts_Unlock

FairLockSpec ==
    /\ Init /\ [][LockNext]_vars
    /\ WF_rdPc(Read_Return)
    /\ WF_elI(ProcessLog_Return)
    /\ SF_muWriter(AddNFTContract_Lock)
    /\ WF_muWriter(AddNFTContract_Unlock)
    /\ WF_elPc(ProcessLogs_Return)
    /\ SF_muWriter(AddNFTContracts_Lock)
    /\ WF_<<syPc, syI>>(AddNFTContracts_Loop)
    /\ WF_muWriter(AddNFTContracts_Unlock)

\* ParseNFTContractCreatedEvent applied to every log of Logs.
ParseInit ==
    /\ RegistryInit
    /\ NewDopamintRPCClient(<< >>, FALSE)
    /\ EffIdle
    /\ parsePc = "idle"
    /\ parseLog \in Logs
    /\ parseRet = "none"

ParseNext == ParseNFTContractCreatedEvent_Call

ParseSpec == ParseInit /\ [][ParseNext]_vars

ConfigNext == NewContractFilter_Call

ConfigSpec == ConfigInit /\ [][ConfigNext]_vars

\* The sync goroutine under a fair scheduler.  The goroutine, once started, runs; a
\* call of the external source returns; the write lock, which nobody else
\* takes here, is granted; and the select, which chooses at random among its
\* ready cases, does not pass over a ready ctx.Done() for ever.
FairSyncSpec ==
    /\ Init /\ [][SyncSpecNext]_vars
    /\ WF_vars(StartMongoDBSync_Call)
    /\ WF_vars(SyncFromMongoDB_Error \/ SyncFromMongoDB_Fetched(SourceLists))
    /\ WF_vars(AddNFTContracts_Lock)
    /\ WF_vars(AddNFTContracts_Loop)
    /\ WF_vars(AddNFTContracts_Unlock)
    /\ SF_vars(Select_Done)

\* ------------------------------------------------------------------ helpers
Watched == {factoryAddress, paymentAddress} \cup nftContracts
ReadReturns(op) == rdPc = "rlocked" /\ rdPc' = "returned" /\ rdOp = op
Malformed(log) ==
    /\ log.address = elFactoryAddress
    /\ Len(log.topics) \in {1, 2}
    /\ log.topics[1] = NFTContractCreatedSignature
Applicable(log) ==
    /\ log.address = elFactoryAddress
    /\ Len(log.topics) >= 3
    /\ log.topics[1] = NFTContractCreatedSignature

\* ------------------------------------------------------------------- claims

\* C1: a call of ShouldIndexLog(a) returns true exactly when a is the factory
\* address, the payment address or a dynamic member if filtering is enabled,
\* and returns true for every address if filtering is disabled.
C1_Contains ==
    [][/\ ReadReturns("ShouldIndexLog") => (rdRet' = (rdArg \in Watched))
       /\ (rdPc = "idle" /\ rdPc' = "returned") => (~enabled /\ rdRet' = TRUE)
       /\ (rdPc = "idle" /\ rdPc' = "rlocked" /\ rdOp' = "ShouldIndexLog")
             => enabled]_vars

C1_Witness ==
    /\ rdPc = "returned" /\ rdOp = "ShouldIndexLog"
    /\ ~enabled /\ rdArg \notin Watched /\ rdRet = TRUE

\* C2: in every reachable state ShouldIndexLog is true of the factory and of
\* the payment address, and every snapshot GetWatchedAddresses can return
\* lists both.
C2_FixedRoles ==
    /\ ShouldIndexLog(factoryAddress)
    /\ ShouldIndexLog(paymentAddress)
    /\ \A o \in RangeOrders(nftContracts) :
          {factoryAddress, paymentAddress} \subseteq Range(GetWatchedAddresses(o))

C2_Witness ==
    /\ enabled /\ factoryAddress /= paymentAddress
    /\ paymentAddress \notin nftContracts
    /\ nftContracts /= {}
    /\ syPc = "wait" /\ elPc = "returned" /\ discoveredCount > 0

\* C3: adding an address makes it a member, and adding an address that is
\* already a member changes neither the membership nor the count Stats
\* reports (AddNFTContract twice is AddNFTContract once; a batch of
\* AddNFTContracts that repeats an address adds it once).
C3_Idempotent ==
    [][/\ (elPc = "add" /\ elPc' = "loop") =>
            LET a == ContractAddressOf(elLogs[elI]) IN
            /\ a \in nftContracts'
            /\ a \in nftContracts =>
                 /\ nftContracts' = nftContracts
                 /\ Stats'.nft_contracts_count = Stats.nft_contracts_count
       /\ (syPc = "loop" /\ syI' = syI + 1) =>
            LET a == syAddrs[syI] IN
            /\ a \in nftContracts'
            /\ a \in nftContracts =>
                 /\ nftContracts' = nftContracts
                 /\ Stats'.nft_contracts_count = Stats.nft_contracts_count
                 /\ newCount' = newCount]_vars

C3_Witness ==
    /\ elPc = "returned" /\ Len(elLogs) = 2 /\ elLogs[1] = elLogs[2]
    /\ Applicable(elLogs[1])
    /\ nftContracts = {ContractAddressOf(elLogs[1])}
    /\ syPc = "idle"

\* C4: no step removes a dynamic member: the member set only grows, its
\* count never decreases, and an address ShouldIndexLog accepted stays
\* accepted.
C4_Monotonic ==
    [][/\ nftContracts \subseteq nftContracts'
       /\ Stats.nft_contracts_count <= Stats'.nft_contracts_count
       /\ \A a \in Address : ShouldIndexLog(a) => ShouldIndexLog(a)']_vars

C4_Witness ==
    /\ syPc = "loop" /\ syI > Len(syAddrs)
    /\ \E a \in nftContracts : a \notin Range(syAddrs) /\ a \notin {0, 3}

\* C5: every snapshot GetWatchedAddresses can return lists each address at
\* most once, and total_watched of Stats is the number of distinct watched
\* addresses.
C5_NoDuplicates ==
    /\ \A o \in RangeOrders(nftContracts) :
          LET w == GetWatchedAddresses(o) IN
          \A i, j \in 1 .. Len(w) : i /= j => w[i] /= w[j]
    /\ Stats.total_watched = Cardinality(Watched)

\* C6: the locked part of a read operation runs only when no write is under
\* way, and what it returns is computed from the member set exactly as the
\* last completed write left it.
C6_NoPartialRead ==
    [][(rdPc = "rlocked" /\ rdPc' = "returned") =>
          /\ muWriter = "none"
          /\ nftContracts = committed
          /\ rdOp = "ShouldIndexLog" =>
                rdRet' = (rdArg \in {factoryAddress, paymentAddress} \cup committed)
          /\ rdOp = "GetWatchedAddresses" =>
                {rdRet'[i] : i \in 3 .. Len(rdRet')} = committed
          /\ rdOp = "Stats" =>
                rdRet'.nft_contracts_count = Cardinality(committed)]_vars

C6_Witness ==
    /\ rdPc = "rlocked" /\ rdOp = "GetWatchedAddresses"
    /\ syPc = "lock" /\ Len(syAddrs) = 2 /\ Range(syAddrs) \cap nftContracts = {}
    /\ syAddrs[1] /= syAddrs[2]
    /\ elPc = "loop" /\ elI = 1 /\ Applicable(elLogs[1])

\* C7: the listener's step on a log that carries the discovery signature but
\* was not emitted by the factory changes nothing of the filter and does not
\* take its lock.
C7_NonFactoryIgnored ==
    [][(/\ elPc = "loop" /\ elI <= Len(elLogs)
        /\ elLogs[elI].address /= elFactoryAddress
        /\ CountsAsDiscovered(elLogs[elI]))
          => /\ UNCHANGED <<filterVars, muVars>>
             /\ elI' = elI + 1]_vars

C7_Witness ==
    /\ elPc = "returned" /\ Len(elLogs) = 1
    /\ elLogs[1].address /= elFactoryAddress
    /\ CountsAsDiscovered(elLogs[1]) /\ Len(elLogs[1].topics) = 3
    /\ ContractAddressOf(elLogs[1]) \notin Watched

\* C8: a malformed log (factory, discovery signature, fewer than three
\* topics) is not inserted and is not counted as a discovery event: the
\* count ProcessLogs returns leaves the malformed logs of the batch out.
C8_MalformedNotCounted ==
    elPc = "returned" =>
        discoveredCount <=
            Cardinality({i \in 1 .. Len(elLogs) : ~Malformed(elLogs[i])})

\* C9: ProcessLogs returns the number of logs of the batch that are
\* applicable discovery events (factory, discovery signature, extracted and
\* passed to AddNFTContract).
C9_CountApplicable ==
    elPc = "returned" =>
        discoveredCount =
            Cardinality({i \in 1 .. Len(elLogs) : Applicable(elLogs[i])})

C11_SyncMerge ==
    [][(syPc = "loop" /\ syPc' = "wait") =>
          /\ nftContracts = committed \cup Range(syAddrs)
          /\ newCount = Cardinality(Range(syAddrs) \ committed)
          /\ Range(syAddrs) \subseteq committed'
          /\ Range(syAddrs) \subseteq committed =>
                (newCount = 0 /\ committed' = committed)]_vars

C11_Witness ==
    /\ syPc = "loop" /\ syI > Len(syAddrs)
    /\ syAddrs = <<2, 3, 2>>
    /\ {2, 3} \cap ({factoryAddress, paymentAddress} \cup committed) = {}
    /\ newCount = 2
    /\ nftContracts = committed \cup {2, 3}

\* C12: with sync enabled, StartMongoDBSync goes straight from its start to
\* the initial syncFromMongoDB call, the first attempt; it reaches the select
\* of the periodic loop only from a syncFromMongoDB call that has returned
\* (the write lock released), and no second attempt starts before the select
\* has been reached.
C12_InitialSyncFirst ==
    [][/\ (syPc = "idle" /\ syPc' /= "idle" /\ mongodbSyncEnabled) =>
              (syPc' = "fetch" /\ attempts = 0 /\ attempts' = 1)
       /\ (attempts = 0 /\ attempts' /= 0) => syPc = "idle"
       /\ (syPc /= "wait" /\ syPc' = "wait") =>
              (syPc \in {"fetch", "loop"} /\ attempts' >= 1 /\ muWriter' /= "sync")
       /\ (attempts = 1 /\ attempts' /= 1) => syPc = "wait"]_vars

C12_Witness ==
    /\ mongodbSyncEnabled
    /\ syPc = "wait" /\ attempts = 1 /\ ~syErr
    /\ tickerC /\ ~ctxDone

\* C13: a syncFromMongoDB call that returns an error, the initial one or a
\* periodic one, takes StartMongoDBSync to the select and changes nothing
\* in the registry; from the select, after a failure and with the context
\* not cancelled, the goroutine leaves only by taking a tick and starting
\* another attempt; StartMongoDBSync stops only on a cancelled context.
C13_FailureKeepsLoop ==
    [][/\ (syPc = "fetch" /\ syPc' \notin {"fetch", "lock"} /\ syErr') =>
              (syPc' = "wait" /\ UNCHANGED <<filterVars, muVars, committed>>)
       /\ (syErr /\ syPc = "wait" /\ syPc' /= "wait" /\ ~ctxDone) =>
              (syPc' = "fetch" /\ tickerC /\ ~tickerC')
       /\ (syPc /= "stopped" /\ syPc' = "stopped") => (syPc = "wait" /\ ctxDone)]_vars

C13_Witness ==
    /\ syPc = "fetch" /\ syErr /\ attempts = 2
    /\ ~ctxDone

\* C14: once the context is cancelled, StartMongoDBSync starts no
\* syncFromMongoDB call, neither the initial one nor one from the select.
C14_NoAttemptAfterCancel ==
    [][ctxDone => ~(syPc /= "fetch" /\ syPc' = "fetch")]_vars

\* C15: after the context is cancelled StartMongoDBSync eventually returns.
\* It returns from the select only, never from inside syncFromMongoDB: the
\* cancellation changes nothing in the goroutine or in the registry, and an
\* AddNFTContracts call in flight inserts its whole list and releases the
\* lock before the goroutine looks at the context.
C15_CooperativeCancel ==
    /\ ctxDone ~> (syPc \in {"stopped", "returned"})
    /\ [][/\ (syPc /= "stopped" /\ syPc' = "stopped") =>
                 (syPc = "wait" /\ muWriter /= "sync")
          /\ (ctxDone' /= ctxDone) =>
                 UNCHANGED <<syPc, syAddrs, syI, newCount, filterVars, muVars>>
          /\ (syPc = "loop" /\ syPc' /= "loop") =>
                 (syI > Len(syAddrs) /\ syPc' = "wait")]_vars

C15_Witness ==
    /\ ctxDone /\ syPc = "stopped"
    /\ attempts = 2 /\ ~syErr
    /\ {2, 3} \subseteq nftContracts

\* C16: with sync disabled StartMongoDBSync returns in its first step,
\* whether or not the context is cancelled; no syncFromMongoDB call is ever
\* made, no ticker exists and no tick is ever delivered, and no step of the
\* goroutine changes the registry or takes its lock.
C16_DisabledReturns ==
    /\ [](~mongodbSyncEnabled =>
             /\ syPc \in {"idle", "returned"}
             /\ attempts = 0
             /\ ~TickerRunning /\ ~tickerC
             /\ syAddrs = << >>)
    /\ [][~mongodbSyncEnabled =>
             /\ UNCHANGED <<filterVars, muVars, committed>>
             /\ (syPc = "idle" /\ syPc' /= "idle") => syPc' = "returned"]_vars

C16_Witness ==
    /\ ~mongodbSyncEnabled
    /\ syPc = "returned" /\ ~ctxDone
    /\ attempts = 0 /\ ~tickerC /\ nftContracts = committed

\* The logs of the chain in the block range of a GetFilteredLogs call.
LogsInRange(args) ==
    LET InRange(l) == args.fromBlock <= l.block /\ l.block <= args.toBlock
    IN SelectSeq(ChainLogs, InRange)

\* C17: the query GetFilteredLogs hands to client.FilterLogs covers the
\* block range of the call, and it carries an address list, the cached one,
\* exactly when filtering is enabled and the cached list is not empty.  A
\* query without address list brings back every log of the range, not an
\* empty result.
C17_ConstrainedIff ==
    [][/\ (rpcPc = "idle" /\ rpcPc' = "call") =>
              /\ rpcQuery'.FromBlock = rpcArgs'.fromBlock
              /\ rpcQuery'.ToBlock = rpcArgs'.toBlock
              /\ (rpcQuery'.Addresses /= << >>) <=>
                     (filterEnabled /\ addressFilter /= << >>)
              /\ (rpcQuery'.Addresses /= << >>) =>
                     rpcQuery'.Addresses = addressFilter
       /\ (rpcPc = "call" /\ rpcPc' = "returned" /\ rpcErr' = NoError) =>
              /\ rpcRet'.err = NoError
              /\ (rpcQuery.Addresses = << >>) =>
                     rpcRet'.logs = LogsInRange(rpcArgs)
              /\ (rpcQuery.Addresses /= << >>) =>
                     rpcRet'.logs =
                         SelectSeq(LogsInRange(rpcArgs),
                                   LAMBDA l : l.address \in Range(rpcQuery.Addresses))]_vars

C17_Witness ==
    /\ filterEnabled /\ addressFilter = << >> /\ updOld = <<1, 2>>
    /\ rpcPc = "returned"
    /\ rpcQuery.Addresses = << >>
    /\ rpcRet.err = NoError /\ rpcRet.logs /= << >>
    /\ rpcRet.logs = LogsInRange(rpcArgs)

\* C18: when client.FilterLogs fails, GetFilteredLogs returns no logs and
\* an error whose cause is the failure of the client and whose text names
\* the block range of the call, on the filtered and on the unfiltered path,
\* after exactly one client.FilterLogs call.
C18_ErrorTagged ==
    (rpcPc = "returned" /\ rpcErr /= NoError) =>
        /\ rpcRet.logs = << >>
        /\ rpcRet.err /= NoError
        /\ rpcRet.err.chain[Len(rpcRet.err.chain)] = rpcErr.chain[1]
        /\ <<rpcArgs.fromBlock, rpcArgs.toBlock>> \in rpcRet.err.blocks
        /\ rpcCalls = 1

\* C19: the list cached by the adapter is always the argument of the last
\* UpdateAddressFilter (the constructor's list before the first one), none
\* of the replaced list is kept.  The next GetFilteredLogs attaches exactly
\* that list when filtering is enabled, and after an update with the empty
\* list its query has no address list and brings back every log of the
\* block range.
C19_UpdateReplaces ==
    /\ [](addressFilter = updArg)
    /\ [][/\ (rpcPc = "idle" /\ rpcPc' = "call") =>
                 /\ rpcQuery'.Addresses = (IF filterEnabled THEN updArg ELSE << >>)
                 /\ (updArg = << >>) => rpcQuery'.Addresses = << >>
          /\ (rpcPc = "call" /\ rpcPc' = "returned" /\ rpcErr' = NoError
                /\ rpcQuery.Addresses = << >>) =>
                 rpcRet'.logs = LogsInRange(rpcArgs)]_vars

C19_Witness ==
    /\ filterEnabled
    /\ updOld = <<1, 2>> /\ updArg = <<3>> /\ addressFilter = <<3>>
    /\ rpcPc = "returned" /\ rpcErr = NoError
    /\ rpcQuery.Addresses = <<3>>
    /\ rpcRet.logs /= << >>
    /\ \A i \in 1 .. Len(rpcRet.logs) : rpcRet.logs[i].address = 3
    /\ \E i \in 1 .. Len(LogsInRange(rpcArgs)) :
           LogsInRange(rpcArgs)[i].address \in {1, 2}

\* C20: CalculateFilterEfficiency returns 0 when TotalLogsReceived is 0 and
\* 90 for total 1000 and retained 100; for total > 0 its result is the
\* number (1 - retained/total) * 100 up to the rounding of float64 (here:
\* nearer than 2^-30), negative only when retained exceeds total; and for
\* 0 <= retained <= total it lies between 0 and 100.
C20_Efficiency ==
    effPc = "returned" =>
        LET total == effStats.TotalLogsReceived
            retained == effStats.LogsAfterFilter
            exact == FxDiv(100 * (IF retained > total THEN retained - total
                                                      ELSE total - retained),
                           total)
            diff == IF FxLess(effRet.mag, exact) THEN FxSub(exact, effRet.mag)
                                                 ELSE FxSub(effRet.mag, exact)
        IN /\ (total = 0) => effRet = F64(0)
           /\ (total = 1000 /\ retained = 100) => effRet = F64(90)
           /\ (total > 0) =>
                  /\ \A i \in 1 .. (IntBits + 30) : diff[i] = 0
                  /\ effRet.neg <=> (retained > total)
           /\ (total > 0 /\ retained <= total) =>
                  /\ ~effRet.neg
                  /\ ~FxLess(FxOfInt(100), effRet.mag)

C20_Witness ==
    /\ effPc = "returned"
    /\ effStats = [TotalLogsReceived |-> 1000, LogsAfterFilter |-> 100]
    /\ effRet = [neg |-> FALSE, mag |-> FxOfInt(90)]

\* ---------------------------------------------------------------------
\* C21. Configuration errors are fatal at construction: when the file is
\* unreadable or unparsable, or when the factory or the payment address is
\* missing or malformed, NewContractFilter returns an error and no
\* registry; a registry is returned only with both addresses as configured.
WellFormed(s) == ~s.empty /\ s.hex

C21_ConfigErrorsFatal ==
    ctorPc = "returned" =>
        /\ ctorRet.filter <=>
               /\ ctorConfig.readable /\ ctorConfig.parsable
               /\ WellFormed(ctorConfig.factory)
               /\ WellFormed(ctorConfig.payment)
        /\ ~ctorRet.filter => ctorRet.err # "nil"
        /\ ctorRet.filter => factoryAddress # 0 /\ paymentAddress # 0

\* ---------------------------------------------------------------------
\* C22. GetAddressFilter returns one lowercase hexadecimal string per
\* address of the current snapshot (factory, payment, then each dynamic
\* address once), the same multiset whatever the order of the map, and
\* inputs of the preload list or of the sync results that differ only in
\* letter case stand for one entry and give one string.
CountIn(seq, x) == Cardinality({i \in DOMAIN seq : seq[i] = x})
LowerOf(a) == [empty |-> FALSE, hex |-> TRUE, val |-> a, upper |-> FALSE]
SnapshotCount(a) ==
    (IF a = factoryAddress THEN 1 ELSE 0) + (IF a = paymentAddress THEN 1 ELSE 0)
        + (IF a \in nftContracts THEN 1 ELSE 0)

C22_Canonical ==
    [][ReadReturns("GetAddressFilter") =>
        /\ Len(rdRet') = 2 + Cardinality(nftContracts)
        /\ \A i \in DOMAIN rdRet' :
               ~rdRet'[i].empty /\ rdRet'[i].hex /\ ~rdRet'[i].upper
        /\ \A a \in Address : CountIn(rdRet', LowerOf(a)) = SnapshotCount(a)
        /\ \A a \in {HexToAddress(s) : s \in Range(ctorConfig.nftContracts) \ {EmptyString}}
               \cup Range(syAddrs) :
               a \in nftContracts =>
                   CountIn(SubSeq(rdRet', 3, Len(rdRet')), LowerOf(a)) = 1]_vars

\* GetAddressFilter has returned after a preload that named address 3 in
\* both letter cases and an insertion of address 2: the list holds one
\* string for each of them, here in the order 2, 3.
C22_Witness ==
    /\ rdPc = "returned" /\ rdOp = "GetAddressFilter"
    /\ Hex(3, FALSE) \in Range(ctorConfig.nftContracts)
    /\ Hex(3, TRUE) \in Range(ctorConfig.nftContracts)
    /\ nftContracts = {2, 3}
    /\ rdRet[3] = LowerOf(2) /\ rdRet[4] = LowerOf(3)
    /\ Len(rdRet) = 4

\* ---------------------------------------------------------------------
\* C23. A bad log never aborts the batch: ProcessLogs handles the logs of
\* the batch in order up to the last one, so every applicable discovery
\* log among the logs already handled has its address in the registry,
\* also when it follows a malformed log, a log without topics or a log not
\* emitted by the factory; ProcessLogs returns only after the last log.
C23_BadLogNoAbort ==
    /\ elPc \in {"loop", "returned"} =>
           \A i \in 1 .. Len(elLogs) :
               (i < elI /\ Applicable(elLogs[i])) =>
                   ContractAddressOf(elLogs[i]) \in nftContracts
    /\ elPc = "returned" => elI = Len(elLogs) + 1

\* ProcessLogs has returned from a batch whose first log is malformed and
\* whose second log is a discovery of address 2, which the preload did not
\* hold and which is now in the registry.
C23_Witness ==
    /\ elPc = "returned" /\ Len(elLogs) = 2
    /\ Malformed(elLogs[1])
    /\ Applicable(elLogs[2]) /\ ContractAddressOf(elLogs[2]) = 2
    /\ 2 \in nftContracts
    /\ Hex(2, FALSE) \notin Range(ctorConfig.nftContracts)
    /\ Hex(2, TRUE) \notin Range(ctorConfig.nftContracts)

\* ---------------------------------------------------------------------
\* C24. A factory log with the discovery signature whose second topic is
\* not address-shaped (its 12 padding bytes are not all zero) fails the
\* processing of that single log: while the loop is on such a log the
\* registry does not change, and the loop then goes on to the next log.
NotAddressShaped(log) == Applicable(log) /\ log.topics[2].hi /= 0

C24_PaddingChecked ==
    [][(/\ elPc \in {"loop", "add"} /\ elI <= Len(elLogs)
        /\ NotAddressShaped(elLogs[elI]))
          => /\ nftContracts' = nftContracts
             /\ elI' \in {elI, elI + 1}]_vars

\* ---------------------------------------------------------------------
\* C25. Duplicate delivery is absorbed: when ProcessLogs returns (called
\* directly or by BackfillNFTContracts), the registry is the registry of
\* the call plus the set of addresses of the batch's discovery events,
\* however often an event occurs in the batch; a run on the batch of the
\* previous run leaves the registry as that run left it.
Discovered(logs) ==
    {ContractAddressOf(logs[i]) : i \in {j \in 1 .. Len(logs) : Applicable(logs[j])}}

C25_DuplicatesAbsorbed ==
    (bfPc = "call" /\ elPc = "returned") =>
        /\ nftContracts = bfStart \cup Discovered(elLogs)
        /\ elLogs = bfPrev => nftContracts = bfStart

\* The second run of a backfill on the same batch, which holds the
\* discovery of address 2 twice, has returned: the registry holds 2, which
\* the preload did not, and is what the first run left.
C25_Witness ==
    /\ bfPc = "returned"
    /\ Len(elLogs) = 2 /\ elLogs[1] = elLogs[2] /\ Applicable(elLogs[1])
    /\ ContractAddressOf(elLogs[1]) = 2
    /\ bfPrev = elLogs
    /\ Hex(2, FALSE) \notin Range(ctorConfig.nftContracts)
    /\ Hex(2, TRUE) \notin Range(ctorConfig.nftContracts)
    /\ nftContracts = bfStart /\ 2 \in nftContracts

\* ---------------------------------------------------------------------
\* C26. BackfillNFTContracts is the pipeline of ProcessLogs: for every
\* batch and every start state it leaves the registry ProcessLogs leaves
\* (the registry of the call plus the addresses of the batch's discovery
\* events), and it returns the count of addresses discovered.
C26_BackfillAsProcessLogs ==
    bfPc = "returned" =>
        /\ nftContracts = bfStart \cup Discovered(elLogs)
        /\ bfRet.kind = "int"
        /\ bfRet.val = discoveredCount

\* ---------------------------------------------------------------------
\* C27. Parsing one log applies the applicability tests before the
\* topic-count check: an event is returned exactly for a factory log with
\* the discovery signature and at least three topics; a log failing the
\* emitter test or the signature test gives "not applicable", not an
\* error, whatever its topic count; an error is returned exactly for a
\* factory log with the discovery signature and fewer than three topics.
NotApplicable(log) ==
    \/ log.address /= elFactoryAddress
    \/ Len(log.topics) = 0
    \/ log.topics[1] /= NFTContractCreatedSignature

C27_ParseOrder ==
    parsePc = "returned" =>
        /\ parseRet.kind = "event" <=> Applicable(parseLog)
        /\ NotApplicable(parseLog) => parseRet.kind = "not applicable"
        /\ parseRet.kind = "error" <=> Malformed(parseLog)

\* ---------------------------------------------------------------------
\* C28. Insertions commute: once a ProcessLogs call of the listener and an
\* AddNFTContracts call of the sync goroutine have both returned, in
\* whatever order or interleaving they ran, the registry holds the
\* preloaded addresses, the addresses the listener discovered and the
\* addresses of the synced list, and the dynamic count is the size of that
\* set, whether the two inserted the same address or different ones.
C28_InsertionsCommute ==
    (elPc = "returned" /\ syPc = "wait") =>
        /\ nftContracts =
               LoadInitial(ctorConfig.nftContracts) \cup Discovered(elLogs)
                   \cup Range(CommuteList)
        /\ Stats.nft_contracts_count =
               Cardinality(LoadInitial(ctorConfig.nftContracts)
                               \cup Discovered(elLogs) \cup Range(CommuteList))

\* Both have returned: the listener discovered address 2 and address 0, the
\* sync inserted 2 and 3, nothing was preloaded, and the registry holds
\* the three addresses.
C28_Witness ==
    /\ elPc = "returned" /\ syPc = "wait"
    /\ ctorConfig.nftContracts = << >>
    /\ Discovered(elLogs) = {0, 2}
    /\ nftContracts = {0, 2, 3}
    /\ Stats.nft_contracts_count = 3

\* ---------------------------------------------------------------------
\* C29. Bounded staleness of the allow-list: with a driver that hands the
\* adapter a fresh snapshot before each fetch and an adapter that filters,
\* the allow-list of a fetch is the factory, the payment contract and the
\* addresses that were in the registry when the snapshot was taken.  An
\* address inserted after the snapshot is absent from this fetch, and the
\* addresses that were inserted after the previous snapshot are in it.
C29_BoundedStaleness ==
    (drPc = "fetched" /\ filterEnabled) =>
        /\ Range(rpcQuery.Addresses) =
               {factoryAddress, paymentAddress} \cup drSeen
        /\ \A a \in nftContracts \ drSeen :
               a \notin {factoryAddress, paymentAddress} =>
                   a \notin Range(rpcQuery.Addresses)
        /\ drLate \subseteq Range(rpcQuery.Addresses)

\* A fetch of a later cycle: address 3 was inserted after the previous
\* snapshot and is in this fetch's allow-list; address 2 was inserted after
\* this snapshot, is in the registry and is not in the allow-list.
C29_Witness ==
    /\ drPc = "fetched" /\ filterEnabled
    /\ paymentAddress = 1
    /\ drLate = {3}
    /\ 3 \in Range(rpcQuery.Addresses)
    /\ nftContracts = {2, 3}
    /\ 2 \notin Range(rpcQuery.Addresses)

\* ---------------------------------------------------------------------
\* C30. With filtering enabled, an empty preload list, and auto-discovery
\* and sync both configured as disabled, the dynamic set stays empty in
\* every reachable state and ShouldIndexLog accepts only the factory and
\* the payment address, whatever logs the listener is given and although
\* StartMongoDBSync is called.
C30_DisabledStaysEmpty ==
    (/\ enabled /\ ~autoDiscovery /\ ~mongodbSyncEnabled
     /\ LoadInitial(ctorConfig.nftContracts) = {}) =>
        /\ nftContracts = {}
        /\ \A a \in Address :
               ShouldIndexLog(a) <=> a \in {factoryAddress, paymentAddress}

\* ---------------------------------------------------------------------
\* C31. Sync is all-or-nothing on failure: when the external source fails
\* during an attempt (the query fails, or an error occurs part-way through
\* reading the result: a document cannot be decoded, or the cursor ends
\* with an error), syncFromMongoDB returns an error and the registry is as
\* it was before the attempt; no partial list is merged.
SourceFailed(result) ==
    \/ result.findErr
    \/ result.cursorErr
    \/ \E i \in 1 .. Len(result.docs) : ~result.docs[i].decodable

C31_AllOrNothing ==
    (syPc \in {"lock", "loop", "wait"} /\ SourceFailed(srcResult)) =>
        /\ syPc = "wait" /\ syErr
        /\ nftContracts = syBefore

\* ---------------------------------------------------------------------
\* C32. Within one StartMongoDBSync at most one syncFromMongoDB call is in
\* flight: an attempt starts only when the goroutine has not started yet
\* or is at the select, the previous attempt having returned and released
\* the lock; a tick that elapses during an attempt starts nothing and
\* waits in the ticker's channel.
SyncInFlight == syPc \in {"fetch", "lock", "loop"}

C32_OneSyncInFlight ==
    [][/\ (attempts' /= attempts \/ (tickerC /\ ~tickerC')) =>
              /\ ~SyncInFlight
              /\ muWriter /= "sync" /\ syAddrs = << >>
       /\ (SyncInFlight /\ ~tickerC /\ tickerC') =>
              UNCHANGED <<syPc, syAddrs, syI, attempts>>]_vars

\* The second attempt is in flight, inserting its list under the lock, and
\* a tick has elapsed meanwhile and waits in the channel.
C32_Witness ==
    /\ syPc = "loop" /\ muWriter = "sync"
    /\ attempts = 2
    /\ tickerC /\ ~ctxDone

\* ---------------------------------------------------------------------
\* C33. The cached list of the adapter is not a racing shared resource:
\* when UpdateAddressFilter runs concurrently with GetFilteredLogs, the
\* fetch decides between the filtered and the unfiltered path and builds
\* its query from one and the same list value: on the filtered path, taken
\* because the list was not empty, the query carries that list and never an
\* empty one; on the unfiltered path the query carries no list.
C33_OneListValue ==
    [][(rpcPc = "test" /\ rpcPc' = "call") =>
          IF filterEnabled /\ rpcTested /= << >>
          THEN /\ rpcQuery'.Addresses = rpcTested
               /\ rpcQuery'.Addresses /= << >>
          ELSE rpcQuery'.Addresses = << >>]_vars

\* ---------------------------------------------------------------------
\* C34. The lock discipline of the registry is deadlock-free.  The mutex
\* is held by a writer exactly while that writer is inside AddNFTContract
\* or AddNFTContracts and by the reader exactly while it is inside a read
\* operation, so no operation takes the lock while holding it or returns
\* holding it; and every operation started by the listener, by the sync
\* goroutine or by a reader completes.
C34_DeadlockFree ==
    /\ [](/\ muWriter = "el" <=> elPc = "add"
          /\ muWriter = "sync" <=> syPc = "loop"
          /\ muWriter \in {"none", "el", "sync"}
          /\ muReaders = (IF rdPc = "rlocked" THEN {"rd"} ELSE {})
          /\ muWriter /= "none" => muReaders = {})
    /\ (elPc = "loop") ~> (elPc = "returned")
    /\ (syPc = "lock") ~> (syPc = "wait")
    /\ (rdPc = "rlocked") ~> (rdPc = "returned")

\* The three are at the mutex together: the reader holds it inside
\* GetAddressFilter while the listener and the sync goroutine both wait in
\* Lock().
C34_Witness ==
    /\ rdPc = "rlocked" /\ rdOp = "GetAddressFilter" /\ muReaders = {"rd"}
    /\ elPc = "loop" /\ elI <= Len(elLogs) /\ ProcessLogOutcome(elLogs[elI]) = "add"
    /\ syPc = "lock"
    /\ muWriter = "none"

C36_FetchFrame ==
    [][(rpcPc' /= rpcPc) =>
          /\ UNCHANGED <<addressFilter, filterEnabled, filterVars, muVars>>
          /\ (rpcPc' = "returned" /\ rpcErr' = NoError) =>
                 rpcRet' = [logs |-> FilterLogs(rpcQuery), err |-> NoError]
          /\ (rpcPc' = "returned" /\ rpcErr' /= NoError) =>
                 /\ rpcRet'.logs = << >>
                 /\ rpcRet'.err /= NoError]_vars

\* A successful filtered fetch has returned several logs while the adapter
\* holds a list of two and the registry holds a dynamic member.
C36_Witness ==
    /\ rpcPc = "returned" /\ rpcErr = NoError
    /\ filterEnabled /\ addressFilter = <<1, 2>>
    /\ rpcQuery.Addresses = <<1, 2>>
    /\ Len(rpcRet.logs) > 1
    /\ nftContracts /= {}

\* ---------------------------------------------------------------------
\* C37. After NewContractFilter has built a registry from a configuration
\* with a preload list, the dynamic set is exactly the set of the addresses
\* written by the non-empty entries of the list (empty strings skipped,
\* entries repeated or differing in letter case only counted once),
\* ShouldIndexLog is true of each of them, and Stats reports their number
\* as nft_contracts_count.
PreloadedAddresses(list) ==
    {list[i].val : i \in {j \in DOMAIN list : ~list[j].empty}}

C37_PreloadExact ==
    (ctorPc = "returned" /\ ctorRet.filter) =>
        /\ nftContracts = PreloadedAddresses(ctorConfig.nftContracts)
        /\ \A a \in PreloadedAddresses(ctorConfig.nftContracts) :
               ShouldIndexLog(a)
        /\ Stats.nft_contracts_count =
               Cardinality(PreloadedAddresses(ctorConfig.nftContracts))
        /\ Stats.total_watched = Stats.nft_contracts_count + 2

\* Built from a list with an empty entry and one address written twice, in
\* lower and in upper case, with filtering enabled: one dynamic member.
C37_Witness ==
    /\ ctorPc = "returned" /\ ctorRet.filter
    /\ ctorConfig.nftContracts = <<EmptyString, Hex(3, FALSE), Hex(3, TRUE)>>
    /\ enabled
    /\ nftContracts = {3}
    /\ Stats.nft_contracts_count = 1
    /\ 0 \notin Watched

====
